---- MODULE Spec2Model ----
(***************************************************************************)
(* Verification model of the StreamingCommunity download engine.           *)
(*                                                                         *)
(* Part 1 (FetchSpec): the sliding-window segment fetchers                 *)
(*   Lib/DASH/segments.py  MPD_Segments                                    *)
(*   Lib/HLS/segments.py   M3U8_Segments                                   *)
(* One track download is one behaviour.  The main coroutine and the        *)
(* per-segment tasks are scheduled cooperatively: a task only runs while   *)
(* the main coroutine is suspended at an await.                            *)
(*                                                                         *)
(* Part 2 (StatusSpec): the status of one download job                     *)
(*   core/N_m3u8/downloader.py  MediaDownloader.start_download             *)
(*   core/N_m3u8/wrapper.py     N_m3u8DLWrapper.download                   *)
(* One run of start_download is one behaviour.                             *)
(*                                                                         *)
(* Part 3 (CoreSpec): the orchestrators                                    *)
(*   core/downloader/hls.py   HLS_Downloader.start                         *)
(*   core/downloader/dash.py  DASH_Downloader.start                        *)
(*                                                                         *)
(* Part 4 (SelectSpec): the selection of the streams to download           *)
(*   core/N_m3u8/downloader.py  get_streams_json, _apply_smart_selection   *)
(*                                                                         *)
(* Part 5 (DrmSpec): the key resolvers                                     *)
(*   core/extractors/ex_widevine.py   get_widevine_keys                    *)
(*   core/extractors/ex_playready.py  get_playready_keys                   *)
(*                                                                         *)
(* Part 6 (PsshSpec): the PSSH extraction from an MPD                      *)
(*   core/extractors/ex_mpd.py  ContentProtectionHandler.extract_pssh_full *)
(*                                                                         *)
(* Part 7 (BoxSpec): the box scan over a media segment                     *)
(*   Lib/DASH/segments.py  MPD_Segments._extract_moof_mdat_from_bytes      *)
(*                                                                         *)
(* Part 8 (StreamsSpec): the choice between single file and segments       *)
(*   Lib/DASH/segments.py  MPD_Segments.download_streams                   *)
(*                                                                         *)
(* Part 9 (EstSpec): the size estimator and its lock                       *)
(*   Lib/HLS/estimator.py  M3U8_Ts_Estimator                               *)
(*                                                                         *)
(* Part 10 (WrapSpec): the event sequence of the downloader subprocess     *)
(*   core/N_m3u8/wrapper.py  N_m3u8DLWrapper.download                      *)
(*                                                                         *)
(* Part 11 (SampleSpec): the size samples a track download hands to the    *)
(* estimator                                                               *)
(*   Lib/DASH/segments.py, Lib/HLS/segments.py  _download_and_write_init,  *)
(*     _download_with_sliding_window, _throttled_progress_update           *)
(*   Lib/HLS/estimator.py  add_ts_file, update_progress_bar                *)
(*                                                                         *)
(* Part 12 (CleanSpec): the move to the output path and the cleanup        *)
(*   core/downloader/hls.py, core/downloader/dash.py  start,               *)
(*     _cleanup_temp_files                                                 *)
(***************************************************************************)
EXTENDS Integers, Sequences, FiniteSets, TLC

\* ------------------------------------------------------------------ bounds
MaxSegments == 3      \* segment counts 1..MaxSegments with a free origin
MaxWorkers == 2       \* worker counts 1..MaxWorkers
MaxRetry == 2         \* REQUEST_MAX_RETRY values 1..MaxRetry
BigSegments == 31     \* a long track served by a scripted origin
MaxLines == 3         \* output lines read from the downloader subprocess
MaxVideo == 2         \* video streams in one manifest
MaxAudio == 2         \* audio streams in one manifest
MaxSubs == 1          \* subtitle streams in one manifest
MaxTags == 1          \* language tags in one requested list
MaxPssh == 2          \* entries of one pssh_list
MaxChildren == 3      \* children of ContentProtection elements in one MPD
MaxBytes == 24        \* length of the byte string given to the box scanner
MaxUrls == 2          \* segment URLs of the representation given to download_streams
MaxSamples == 2       \* estimator calls made by the fetcher
MaxReads == 2         \* estimator calls made by the progress reader
LoopSegments == 2     \* segment counts 0..LoopSegments of the loop on its own
LoopWorkers == 2      \* worker counts 1..LoopWorkers of the loop on its own
LoopRetry == 1        \* REQUEST_MAX_RETRY values 0..LoopRetry of the loop on its own
SampleSegments == 2   \* segment counts 0..SampleSegments of the sample bookkeeping
MaxListed == 1        \* paths the status lists for each kind of track

\* -------------------------------------------------------- program constants
MissingTolerated == 30      \* missing_count <= 30
RatePercent == 90           \* completion_rate >= 0.90

VARIABLES
    track,                \* the immutable inputs of one track download
    pc,                   \* position of the main coroutine
    outfile,              \* records written to the output file, in order
    file_open,            \* the output file handle is open
    next_to_download,
    next_to_write,
    active_tasks,         \* index -> task state (the dict of pending tasks)
    downloaded_segments,
    failed_segments,
    info_nFailed,
    download_interrupted,
    init_state,           \* "none" | "requested" | "written" | "missing"
    result                \* what download_segments hands to its caller

fetchVars == <<track, pc, outfile, file_open, next_to_download, next_to_write,
               active_tasks, downloaded_segments, failed_segments,
               info_nFailed, download_interrupted, init_state, result>>

\* Part 2 (StatusSpec): MediaDownloader.start_download pulling the events
\* of N_m3u8DLWrapper.download (core/N_m3u8).
VARIABLES
    job,                  \* the immutable inputs of one start_download run
    status,               \* status_info.status
    is_downloading,       \* _is_downloading
    sd_pc,                \* position of the start_download generator
    sd_raised,            \* exception that left start_download, or "none"
    update,               \* the event being handled
    w_pc,                 \* position of the wrapper's download generator
    process,              \* the N_m3u8DL-RE subprocess
    ignore_file,          \* the .ignore marker exists
    lines_read,           \* output lines of the subprocess consumed
    input_source,         \* what the download command reads: raw or origin
    files                 \* the job's files present in the output directory

statusVars == <<job, status, is_downloading, sd_pc, sd_raised, update, w_pc,
                process, ignore_file, lines_read, input_source, files>>

\* Part 3 (CoreSpec): HLS_Downloader.start / DASH_Downloader.start, the
\* orchestrator that analyses, downloads, merges and cleans up.
VARIABLES
    core,                 \* the immutable inputs of one start() call
    core_pc,              \* position inside start()
    core_out,             \* what start() returned or raised
    current_file,         \* _merge_files: the file holding the video so far
    done_ops              \* the operations start() has performed so far

coreVars == <<core, core_pc, core_out, current_file, done_ops>>

\* Part 4 (SelectSpec): the stream selection of one MediaDownloader
VARIABLES
    sel_streams,          \* stream_info.streams, as parsed from meta.json
    sel_config,           \* config.set_resolution and the language lists
    sel_request,          \* the configuration the caller asked for
    sel_plan,             \* what get_streams_json returned last
    sel_smart             \* _apply_smart_selection has rewritten the config

selVars == <<sel_streams, sel_config, sel_request, sel_plan, sel_smart>>

\* Part 5 (DrmSpec): one call of get_widevine_keys / get_playready_keys
VARIABLES
    drm,                  \* the arguments of the call and the DRM system
    drm_pc,               \* position inside the function
    drm_i,                \* entries of pssh_list already left behind
    drm_opened,           \* cdm.open() calls so far
    drm_closed,           \* cdm.close() calls so far
    drm_posts,            \* license requests sent so far
    session_keys,         \* the keys the CDM session holds
    all_content_keys,     \* the list the function builds
    drm_out               \* what the function returned or raised

drmVars == <<drm, drm_pc, drm_i, drm_opened, drm_closed, drm_posts,
             session_keys, all_content_keys, drm_out>>

\* Part 6 (PsshSpec): one call of extract_pssh_full
VARIABLES
    pssh_type,            \* the drm_type argument
    pssh_phase,           \* which loop of the function is running
    pssh_scanned,         \* children looked at so far
    pssh_list,            \* the list the function builds
    observed              \* the texts already taken

psshVars == <<pssh_type, pssh_phase, pssh_scanned, pssh_list, observed>>

\* Part 7 (BoxSpec): one run of _extract_moof_mdat_from_bytes
VARIABLES
    data_len,             \* len(data)
    offset,               \* the offset of the scan
    box_pc,               \* "scan" while the generator runs
    box_read,             \* the headers unpacked so far
    box_yielded           \* the slices of data yielded so far

boxVars == <<data_len, offset, box_pc, box_read, box_yielded>>

\* Part 8 (StreamsSpec): one call of MPD_Segments.download_streams
VARIABLES
    rep,                  \* selected_representation
    ds_pc,                \* position in download_streams
    ds_path,              \* the branch of download_streams that was entered
    ds_out                \* the dict that is returned

dsVars == <<rep, ds_pc, ds_path, ds_out>>

\* Part 9 (EstSpec): M3U8_Ts_Estimator shared by the fetcher and a reader
VARIABLES
    ts_file_sizes,        \* the sample buffer
    lock,                 \* the holder of self.lock, "free" when released
    est_stack,            \* per thread: the frames of its running call
    est_calls,            \* per thread: the calls it has started
    est_ret               \* per thread: what its last finished call gave

estVars == <<ts_file_sizes, lock, est_stack, est_calls, est_ret>>

\* Part 10 (WrapSpec): N_m3u8DLWrapper.download pulled to its end
VARIABLES
    wr_config,            \* select_audio_lang and select_subtitle_lang
    wr_pc,                \* position of the generator
    wr_events,            \* the events yielded so far
    wr_process,           \* the N_m3u8DL-RE subprocess
    wr_returncode,        \* process.returncode once the output has ended
    wr_lines              \* output lines of the subprocess consumed

wrVars == <<wr_config, wr_pc, wr_events, wr_process, wr_returncode, wr_lines>>

\* Part 11 (SampleSpec): the estimator's samples during one track download
VARIABLES
    sm_track,             \* fetcher, has_init and total_segments
    sm_pc,                \* "init" | "loop" | "done"
    sm_next,              \* next_to_write
    sm_written,           \* what has been written to the output file
    sm_samples,           \* ts_file_sizes, each entry with where it came from
    sm_last_update        \* _last_progress_update is still 0, or a time stamp

smVars == <<sm_track, sm_pc, sm_next, sm_written, sm_samples, sm_last_update>>

\* Part 12 (CleanSpec): the end of start(), the move and the cleanup
VARIABLES
    cl_in,                \* downloader, CLEANUP_TMP, the status, the merged file
    cl_pc,                \* "move" | "cleanup" | "done"
    cl_output_path,       \* self.output_path
    cl_files,             \* the files of the output directory that exist
    cl_removed            \* the files _cleanup_temp_files has removed

clVars == <<cl_in, cl_pc, cl_output_path, cl_files, cl_removed>>

\* The variables of the parts that follow Part 4
auxVars == <<drmVars, psshVars, boxVars, dsVars, estVars, wrVars, smVars, clVars>>

\* The variables of the later parts that a DRM resolver leaves alone
drmIdle == <<psshVars, boxVars, dsVars, estVars, wrVars, smVars, clVars>>

\* The variables of the later parts that extract_pssh_full leaves alone
psshIdle == <<drmVars, boxVars, dsVars, estVars, wrVars, smVars, clVars>>

\* The variables of the later parts that this part leaves alone
boxIdle == <<drmVars, psshVars, dsVars, estVars, wrVars, smVars, clVars>>

\* The variables of the later parts that this part leaves alone
dsIdle == <<drmVars, psshVars, boxVars, estVars, wrVars, smVars, clVars>>

\* The variables of the later parts that this part leaves alone
estIdle == <<drmVars, psshVars, boxVars, dsVars, wrVars, smVars, clVars>>

\* The variables of the later parts that this part leaves alone
wrIdle == <<drmVars, psshVars, boxVars, dsVars, estVars, smVars, clVars>>

\* The variables of the later parts that this part leaves alone
smIdle == <<drmVars, psshVars, boxVars, dsVars, estVars, wrVars, clVars>>

\* The variables of the later parts that this part leaves alone
clIdle == <<drmVars, psshVars, boxVars, dsVars, estVars, wrVars, smVars>>

vars == <<fetchVars, statusVars, coreVars, selVars, auxVars>>

NoDrm == [system |-> "none"]

NoDrmOut == [kind |-> "pending"]

\* No DRM resolver is in use
DrmParked ==
    /\ drm = NoDrm
    /\ drm_pc = "parked"
    /\ drm_i = 0
    /\ drm_opened = 0
    /\ drm_closed = 0
    /\ drm_posts = 0
    /\ session_keys = {}
    /\ all_content_keys = <<>>
    /\ drm_out = NoDrmOut

\* No PSSH extraction is in use
PsshParked ==
    /\ pssh_type = "none"
    /\ pssh_phase = "parked"
    /\ pssh_scanned = 0
    /\ pssh_list = <<>>
    /\ observed = {}

\* No box scan is in use
BoxParked ==
    /\ data_len = 0
    /\ offset = 0
    /\ box_pc = "parked"
    /\ box_read = <<>>
    /\ box_yielded = <<>>

\* No download_streams call is in use
DsParked ==
    /\ rep = [segment_url_type |-> <<>>, segment_urls |-> <<>>, init_url |-> [none |-> TRUE]]
    /\ ds_pc = "parked"
    /\ ds_path = "none"
    /\ ds_out = [none |-> TRUE]

\* No estimator is in use
EstParked ==
    /\ ts_file_sizes = <<>>
    /\ lock = "parked"
    /\ est_stack = <<>>
    /\ est_calls = <<>>
    /\ est_ret = <<>>

\* No wrapper generator is in use
WrParked ==
    /\ wr_config = [audio |-> [kind |-> "none"], subtitle |-> [kind |-> "none"]]
    /\ wr_pc = "parked"
    /\ wr_events = <<>>
    /\ wr_process = "none"
    /\ wr_returncode = "none"
    /\ wr_lines = 0

\* No sample bookkeeping is in use
SmParked ==
    /\ sm_track = [fetcher |-> "DASH", has_init |-> FALSE, total_segments |-> 0]
    /\ sm_pc = "parked"
    /\ sm_next = 0
    /\ sm_written = {}
    /\ sm_samples = <<>>
    /\ sm_last_update = "parked"

\* No cleanup is in use
ClParked ==
    /\ cl_in = [kind |-> "none"]
    /\ cl_pc = "parked"
    /\ cl_output_path = [kind |-> "none"]
    /\ cl_files = {}
    /\ cl_removed = {}

AuxParked ==
    /\ DrmParked
    /\ PsshParked
    /\ BoxParked
    /\ DsParked
    /\ EstParked
    /\ WrParked
    /\ SmParked
    /\ ClParked

DrmIdleParked ==
    /\ PsshParked
    /\ BoxParked
    /\ DsParked
    /\ EstParked
    /\ WrParked
    /\ SmParked
    /\ ClParked

PsshIdleParked ==
    /\ DrmParked
    /\ BoxParked
    /\ DsParked
    /\ EstParked
    /\ WrParked
    /\ SmParked
    /\ ClParked

BoxIdleParked ==
    /\ DrmParked
    /\ PsshParked
    /\ DsParked
    /\ EstParked
    /\ WrParked
    /\ SmParked
    /\ ClParked

DsIdleParked ==
    /\ DrmParked
    /\ PsshParked
    /\ BoxParked
    /\ EstParked
    /\ WrParked
    /\ SmParked
    /\ ClParked

EstIdleParked ==
    /\ DrmParked
    /\ PsshParked
    /\ BoxParked
    /\ DsParked
    /\ WrParked
    /\ SmParked
    /\ ClParked

WrIdleParked ==
    /\ DrmParked
    /\ PsshParked
    /\ BoxParked
    /\ DsParked
    /\ EstParked
    /\ SmParked
    /\ ClParked

SmIdleParked ==
    /\ DrmParked
    /\ PsshParked
    /\ BoxParked
    /\ DsParked
    /\ EstParked
    /\ WrParked
    /\ ClParked

ClIdleParked ==
    /\ DrmParked
    /\ PsshParked
    /\ BoxParked
    /\ DsParked
    /\ EstParked
    /\ WrParked
    /\ SmParked

NoPlan == [made |-> FALSE]

NoConfig == [set_resolution |-> "none"]

\* No stream selection is in use
SelParked ==
    /\ sel_streams = <<>>
    /\ sel_config = NoConfig
    /\ sel_request = NoConfig
    /\ sel_plan = NoPlan
    /\ sel_smart = FALSE

\* ------------------------------------------------------------------ helpers
Indices(n) == 0 .. (n - 1)

InitRecord == [kind |-> "init", idx |-> -1]

\* What the writer loop puts in the file for segment i.  For MP4 segment
\* files every segment but the first is reduced to its moof/mdat boxes.
SegmentRecord(is_mp4, i) ==
    IF is_mp4 /\ i # 0 THEN [kind |-> "atoms", idx |-> i]
                       ELSE [kind |-> "segment", idx |-> i]

\* A task as asyncio.create_task leaves it: created, not yet run.  `attempt`
\* is the loop variable of the retry loop; `sent` counts the requests the
\* task has issued and `saw404` remembers that one was answered 404.
NewTask == [phase |-> "ready", attempt |-> 0, sent |-> 0, saw404 |-> FALSE,
            success |-> FALSE, content |-> "none"]

NoResult == [raised |-> "pending", nFailed |-> 0, stopped |-> FALSE,
             missing_printed |-> FALSE]

\* ------------------------------------------------------------------- inputs
Fetchers == {"DASH", "HLS"}

Tracks ==
    { t \in [fetcher : Fetchers,
             total_segments : (1 .. MaxSegments) \cup {BigSegments},
             max_workers : 1 .. MaxWorkers,
             max_retry : 1 .. MaxRetry,
             has_init : BOOLEAN,
             is_mp4_segments : BOOLEAN,
             decryption : BOOLEAN,
             origin : {"free", "scripted"},
             gaps : 0 .. BigSegments + 1] :
        \* HLS has no MP4-segment mode, DASH never decrypts in the fetcher
        /\ (t.fetcher = "HLS" => ~t.is_mp4_segments)
        /\ (t.fetcher = "DASH" => ~t.decryption)
        \* a free origin answers anything; it is explored on short tracks
        /\ (t.origin = "free" => t.total_segments <= MaxSegments /\ t.gaps = 0)
        \* a scripted origin answers 404 for the first `gaps` segments and
        \* 200 for the rest; explored around the end of the track
        /\ (t.origin = "scripted" =>
                /\ t.gaps \in {t.total_segments - 1, t.total_segments}
                /\ ~t.has_init /\ ~t.is_mp4_segments /\ ~t.decryption) }

NoUpdate == [status |-> "none", has_404 |-> FALSE]

NoJob == [stream_info_given |-> FALSE, external_subtitles |-> "none",
          select_audio_lang |-> FALSE, select_subtitle_lang |-> FALSE,
          use_raw_forDownload |-> FALSE]

NoCore == [downloader |-> "none"]

NoOut == [path |-> "pending", error |-> FALSE, raised |-> "none"]

\* No orchestrator is in use
CoreParked ==
    /\ core = NoCore
    /\ core_pc = "parked"
    /\ core_out = NoOut
    /\ current_file = "none"
    /\ done_ops = {}

\* The downloader object is not in use while a fetcher is studied
StatusParked ==
    /\ job = NoJob
    /\ status = "not_started"
    /\ is_downloading = FALSE
    /\ sd_pc = "parked"
    /\ sd_raised = "none"
    /\ update = NoUpdate
    /\ w_pc = "parked"
    /\ process = "none"
    /\ ignore_file = FALSE
    /\ lines_read = 0
    /\ input_source = "none"
    /\ files = {}

FetchInit ==
    /\ track \in Tracks
    /\ pc = "start"
    /\ outfile = <<>>
    /\ file_open = FALSE
    /\ next_to_download = 0
    /\ next_to_write = 0
    /\ active_tasks = [i \in {} |-> NewTask]
    /\ downloaded_segments = {}
    /\ failed_segments = {}
    /\ info_nFailed = 0
    /\ download_interrupted = FALSE
    /\ init_state = "none"
    /\ result = NoResult
    /\ StatusParked
    /\ CoreParked
    /\ SelParked
    /\ AuxParked

\* ------------------------------------------------- per-segment download task
\* The task has returned (success, content, _); its locals are gone
Finished(t, ok, body) ==
    [t EXCEPT !.phase = "done", !.attempt = 0, !.success = ok,
              !.content = body]

\* Off by one: the loop runs once more than max_retry
LastAttemptOffByOne(a, max_retry) == a >= max_retry

\* `for attempt in range(max_retry)`: attempt a was the last one
LastAttempt(a, max_retry) == a + 1 >= max_retry

\* A 404 answer ends the task at once in the DASH fetcher
\* ("Don't retry 404 errors"); the HLS fetcher sees it through
\* raise_for_status() as one more exception.
StopsOn404(fetcher) == fetcher = "DASH"

\* The answers the origin can give to a request for segment i.
Answers(t, i) ==
    IF t.origin = "scripted"
    THEN IF i < t.gaps THEN {"404"} ELSE {"ok"}
    ELSE {"ok", "empty", "404", "status", "exception"}
         \cup (IF t.decryption THEN {"decrypt_error"} ELSE {})

\* Tasks run only while the main coroutine is suspended in an await.
TasksMayRun == pc \in {"suspended", "client_close"}

\* Top of the retry loop: `for attempt in range(max_retry)` has no turn
\* left (the turn before was the last one; at once when max_retry = 0), or
\* the task gives up when interrupted, else it issues the request.
TaskAttempt(i) ==
    /\ TasksMayRun
    /\ i \in DOMAIN active_tasks
    /\ active_tasks[i].phase \in {"ready", "sleeping"}
    /\ active_tasks' = [active_tasks EXCEPT
            ![i] = IF \/ download_interrupted
                      \/ LastAttempt(@.attempt - 1, track.max_retry)
                   THEN Finished(@, FALSE, "none")
                   ELSE [@ EXCEPT !.phase = "in_flight", !.sent = @ + 1]]
    /\ UNCHANGED <<statusVars, coreVars, selVars, auxVars>>
    /\ UNCHANGED <<track, pc, outfile, file_open, next_to_download,
                   next_to_write, downloaded_segments, failed_segments,
                   info_nFailed, download_interrupted, init_state, result>>

\* The task state after answer `a` to the request of attempt t.attempt.
AfterAnswer(t0, a, fetcher, max_retry) ==
    LET t == [t0 EXCEPT !.saw404 = @ \/ a = "404"] IN
    CASE a = "ok" -> Finished(t, TRUE, "data")
      [] a = "empty" -> Finished(t, TRUE, "empty")
      [] a = "404" /\ StopsOn404(fetcher) -> Finished(t, FALSE, "none")
      [] OTHER ->
            IF LastAttempt(t.attempt, max_retry)
            THEN Finished(t, FALSE, "none")
            ELSE [t EXCEPT !.phase = "sleeping", !.attempt = @ + 1]

TaskResponse(i) ==
    /\ TasksMayRun
    /\ i \in DOMAIN active_tasks
    /\ active_tasks[i].phase = "in_flight"
    /\ \E a \in Answers(track, i) :
          active_tasks' = [active_tasks EXCEPT
                ![i] = AfterAnswer(@, a, track.fetcher, track.max_retry)]
    /\ UNCHANGED <<statusVars, coreVars, selVars, auxVars>>
    /\ UNCHANGED <<track, pc, outfile, file_open, next_to_download,
                   next_to_write, downloaded_segments, failed_segments,
                   info_nFailed, download_interrupted, init_state, result>>

\* ------------------------------------------------------- the main coroutine
\* The init segment is requested unless the track has none or (DASH) the
\* track is made of MP4 segment files.
InitRequested(t) ==
    IF t.fetcher = "DASH" THEN ~t.is_mp4_segments /\ t.has_init
                          ELSE t.has_init

\* open(concat_path, 'wb') and the start of _download_and_write_init
OpenAndRequestInit ==
    /\ pc = "start"
    /\ file_open' = TRUE
    /\ outfile' = <<>>
    /\ IF InitRequested(track)
       THEN pc' = "init_wait" /\ init_state' = "requested"
       ELSE pc' = "loop" /\ UNCHANGED init_state
    /\ UNCHANGED <<statusVars, coreVars, selVars, auxVars>>
    /\ UNCHANGED <<track, next_to_download, next_to_write, active_tasks,
                   downloaded_segments, failed_segments, info_nFailed,
                   download_interrupted, result>>

InitAnswers(t) ==
    {"ok", "status", "exception"}
    \cup (IF t.decryption THEN {"decrypt_error"} ELSE {})

\* The answer to the init request.  DASH: 200 is written, another status is
\* skipped, an exception becomes a RuntimeError that leaves download_segments.
\* HLS: anything but a decrypted 200 is logged and the download goes on.
InitResponse ==
    /\ pc = "init_wait"
    /\ \E a \in InitAnswers(track) :
         IF a = "ok"
         THEN /\ outfile' = Append(outfile, InitRecord)
              /\ init_state' = "written"
              /\ pc' = "loop"
              /\ UNCHANGED <<file_open, result>>
         ELSE IF track.fetcher = "DASH" /\ a = "exception"
         THEN /\ init_state' = "missing"
              /\ file_open' = FALSE
              /\ pc' = "done"
              /\ result' = [NoResult EXCEPT !.raised = "RuntimeError"]
              /\ UNCHANGED outfile
         ELSE /\ init_state' = "missing"
              /\ pc' = "loop"
              /\ UNCHANGED <<outfile, file_open, result>>
    /\ UNCHANGED <<statusVars, coreVars, selVars, auxVars>>
    /\ UNCHANGED <<track, next_to_download, next_to_write, active_tasks,
                   downloaded_segments, failed_segments, info_nFailed,
                   download_interrupted>>

\* Off by one: the loop is left with the last segment still to be written
LoopContinuesOffByOne(ntw, total, interrupted) == ntw + 1 < total /\ ~interrupted

\* while next_to_write < total_segments and not self.download_interrupted
LoopContinues(ntw, total, interrupted) == ntw < total /\ ~interrupted

LoopTest ==
    /\ pc = "loop"
    /\ pc' = IF LoopContinues(next_to_write, track.total_segments,
                              download_interrupted)
             THEN "fill" ELSE "closing"
    /\ UNCHANGED <<statusVars, coreVars, selVars, auxVars>>
    /\ UNCHANGED <<track, outfile, file_open, next_to_download, next_to_write,
                   active_tasks, downloaded_segments, failed_segments,
                   info_nFailed, download_interrupted, init_state, result>>

\* Off by one: the window takes max_workers + 1 tasks
WindowHasRoomOffByOne(tasks, max_workers) ==
    Cardinality(DOMAIN tasks) <= max_workers

\* len(active_tasks) < max_workers
WindowHasRoom(tasks, max_workers) == Cardinality(DOMAIN tasks) < max_workers

CanSpawn ==
    /\ next_to_download < track.total_segments
    /\ WindowHasRoom(active_tasks, track.max_workers)

\* The task is created for the index after the one that is due
SpawnIndexAhead(ntd) == ntd + 1

\* The index the next created task downloads
SpawnIndex(ntd) == ntd

\* One turn of the inner while loop: create the task for next_to_download
Spawn ==
    /\ pc = "fill"
    /\ CanSpawn
    /\ active_tasks' = (SpawnIndex(next_to_download) :> NewTask) @@ active_tasks
    /\ next_to_download' = next_to_download + 1
    /\ UNCHANGED <<statusVars, coreVars, selVars, auxVars>>
    /\ UNCHANGED <<track, pc, outfile, file_open, next_to_write,
                   downloaded_segments, failed_segments, info_nFailed,
                   download_interrupted, init_state, result>>

\* Any-of: the writer takes the highest task that is done, if there is one
AwaitAnyDone(ntw, tasks) ==
    LET done == {j \in DOMAIN tasks : tasks[j].phase = "done"}
    IN IF done = {} THEN ntw
       ELSE CHOOSE j \in done : \A k \in done : k <= j

\* The task the writer waits for: the one of next_to_write, no other.
AwaitedIndex(ntw, tasks) == ntw

\* The window is full or the track is exhausted: leave the inner loop,
\* break when nothing is pending, else go and await the next task to write.
WindowFilled ==
    /\ pc = "fill"
    /\ ~CanSpawn
    /\ pc' = IF DOMAIN active_tasks = {} THEN "closing"
             ELSE IF AwaitedIndex(next_to_write, active_tasks)
                        \in DOMAIN active_tasks
                  THEN "await"
                  ELSE "loop"
    /\ UNCHANGED <<statusVars, coreVars, selVars, auxVars>>
    /\ UNCHANGED <<track, outfile, file_open, next_to_download, next_to_write,
                   active_tasks, downloaded_segments, failed_segments,
                   info_nFailed, download_interrupted, init_state, result>>

TaskDone(i) == i \in DOMAIN active_tasks /\ active_tasks[i].phase = "done"

\* `await task` on a task that is not done suspends the main coroutine
Suspend ==
    /\ pc = "await"
    /\ ~TaskDone(AwaitedIndex(next_to_write, active_tasks))
    /\ pc' = "suspended"
    /\ UNCHANGED <<statusVars, coreVars, selVars, auxVars>>
    /\ UNCHANGED <<track, outfile, file_open, next_to_download, next_to_write,
                   active_tasks, downloaded_segments, failed_segments,
                   info_nFailed, download_interrupted, init_state, result>>

\* `if success and content`
Usable(t) == t.success /\ t.content = "data"

\* The failure is not recorded
AddFailedForgotten(failed, i) == failed

\* The set is overwritten instead of extended
AddFailedReplacing(failed, i) == {i}

\* self.failed_segments.add(next_to_write)
AddFailed(failed, i) == failed \cup {i}

\* self.downloaded_segments.add(next_to_write): only the HLS fetcher keeps it
AddDownloaded(downloaded, fetcher, i) ==
    IF fetcher = "HLS" THEN downloaded \cup {i} ELSE downloaded

\* `await task` returns: the result of the awaited task is taken out of the
\* window, written or recorded as failed, and next_to_write advances.
Drain ==
    /\ pc \in {"await", "suspended"}
    /\ LET i == AwaitedIndex(next_to_write, active_tasks) IN
       /\ TaskDone(i)
       /\ active_tasks' = [j \in DOMAIN active_tasks \ {i} |-> active_tasks[j]]
       /\ IF Usable(active_tasks[i])
          THEN /\ outfile' = Append(outfile,
                                 SegmentRecord(track.is_mp4_segments, i))
               /\ downloaded_segments' =
                      AddDownloaded(downloaded_segments, track.fetcher, i)
               /\ UNCHANGED <<failed_segments, info_nFailed>>
          ELSE /\ info_nFailed' = info_nFailed + 1
               /\ failed_segments' = AddFailed(failed_segments, i)
               /\ UNCHANGED <<outfile, downloaded_segments>>
    /\ next_to_write' = next_to_write + 1
    /\ pc' = "loop"
    /\ UNCHANGED <<statusVars, coreVars, selVars, auxVars>>
    /\ UNCHANGED <<track, file_open, next_to_download, download_interrupted,
                   init_state, result>>

\* The handler sets the flag and goes on waiting instead of leaving
AfterInterruptNoBreak(p) == p

\* Where the KeyboardInterrupt handler continues: `break`, out of the loop
\* and of the `with open(...)` block.
AfterInterrupt(p) == "closing"

\* KeyboardInterrupt reaches the main coroutine while it waits for the init
\* answer or for a task: the handler sets download_interrupted.
Interrupt ==
    /\ pc \in {"init_wait", "suspended"}
    /\ download_interrupted' = TRUE
    /\ pc' = AfterInterrupt(pc)
    /\ init_state' = IF pc = "init_wait" THEN "missing" ELSE init_state
    /\ UNCHANGED <<statusVars, coreVars, selVars, auxVars>>
    /\ UNCHANGED <<track, outfile, file_open, next_to_download, next_to_write,
                   active_tasks, downloaded_segments, failed_segments,
                   info_nFailed, result>>

\* Leaving `with open(...) as outfile`
CloseFile ==
    /\ pc = "closing"
    /\ file_open' = FALSE
    /\ pc' = "client_close"
    /\ UNCHANGED <<statusVars, coreVars, selVars, auxVars>>
    /\ UNCHANGED <<track, outfile, next_to_download, next_to_write,
                   active_tasks, downloaded_segments, failed_segments,
                   info_nFailed, download_interrupted, init_state, result>>

\* completion_rate >= 0.90 or missing_count <= 30
GapTolerated(total, missing) ==
    \/ 100 * (total - missing) >= RatePercent * total
    \/ missing <= MissingTolerated

\* _verify_download_completion: the only effect of an intolerable gap is the
\* "Missing segments" line on the console; the HLS fetcher has no such step.
MissingPrinted(t, interrupted, failed) ==
    /\ t.fetcher = "DASH"
    /\ ~interrupted
    /\ ~GapTolerated(t.total_segments, Cardinality(failed))

\* The exception _verify_download_completion raises, "none" when it returns
VerifyRaises(t, interrupted, failed) == "none"

\* _verify_download_completion and _generate_results
VerifyAndReturn ==
    /\ pc = "client_close"
    /\ result' = [raised |-> VerifyRaises(track, download_interrupted,
                                          failed_segments),
                  nFailed |-> info_nFailed,
                  stopped |-> download_interrupted,
                  missing_printed |->
                      MissingPrinted(track, download_interrupted,
                                     failed_segments)]
    /\ pc' = "done"
    /\ UNCHANGED <<statusVars, coreVars, selVars, auxVars>>
    /\ UNCHANGED <<track, outfile, file_open, next_to_download, next_to_write,
                   active_tasks, downloaded_segments, failed_segments,
                   info_nFailed, download_interrupted, init_state>>

TaskAttempts == \E i \in DOMAIN active_tasks : TaskAttempt(i)

TaskResponses == \E i \in DOMAIN active_tasks : TaskResponse(i)

FetchNext ==
    \/ OpenAndRequestInit
    \/ InitResponse
    \/ LoopTest
    \/ Spawn
    \/ WindowFilled
    \/ Suspend
    \/ Drain
    \/ Interrupt
    \/ CloseFile
    \/ VerifyAndReturn
    \/ TaskAttempts
    \/ TaskResponses

FetchSpec == FetchInit /\ [][FetchNext]_vars

\* Scheduling: the event loop runs every runnable coroutine, and every
\* request is eventually answered or times out.
FetchFairSpec == FetchSpec /\ WF_vars(FetchNext)

\* The sliding-window loop on its own: short tracks of a free origin, with
\* the empty track and max_retry = 0 among them
LoopTracks ==
    [fetcher : Fetchers,
     total_segments : 0 .. LoopSegments,
     max_workers : 1 .. LoopWorkers,
     max_retry : 0 .. LoopRetry,
     has_init : BOOLEAN,
     is_mp4_segments : {FALSE},
     decryption : {FALSE},
     origin : {"free"},
     gaps : {0}]

LoopInit ==
    /\ track \in LoopTracks
    /\ pc = "start"
    /\ outfile = <<>>
    /\ file_open = FALSE
    /\ next_to_download = 0
    /\ next_to_write = 0
    /\ active_tasks = [i \in {} |-> NewTask]
    /\ downloaded_segments = {}
    /\ failed_segments = {}
    /\ info_nFailed = 0
    /\ download_interrupted = FALSE
    /\ init_state = "none"
    /\ result = NoResult
    /\ StatusParked
    /\ CoreParked
    /\ SelParked
    /\ AuxParked

LoopSpec == LoopInit /\ [][FetchNext]_vars

\* Scheduling as in FetchFairSpec
LoopFairSpec == LoopSpec /\ WF_vars(FetchNext)

\* =================================================== claims on the fetchers
IsSegmentRecord(r) == r.kind # "init"

\* The records of the file that come from media segments, in file order
SegmentPart == SelectSeq(outfile, IsSegmentRecord)

\* C1: the indices of the segments written to the output file are strictly
\* increasing, whatever the order in which the download tasks complete.
C1_WritesAscending ==
    \A p, q \in DOMAIN SegmentPart :
        p < q => SegmentPart[p].idx < SegmentPart[q].idx

\* A later task has completed before the task the writer is waiting for,
\* after a first segment was written.
C1_Witness ==
    /\ Len(SegmentPart) >= 1
    /\ next_to_write \in DOMAIN active_tasks
    /\ ~TaskDone(next_to_write)
    /\ \E j \in DOMAIN active_tasks : j > next_to_write /\ TaskDone(j)

RECURSIVE KeptSegments(_, _, _)
\* The records of the segments below n that did not fail, ascending
KeptSegments(n, failed, is_mp4) ==
    IF n = 0 THEN <<>>
    ELSE IF (n - 1) \in failed
         THEN KeptSegments(n - 1, failed, is_mp4)
         ELSE Append(KeptSegments(n - 1, failed, is_mp4),
                     IF is_mp4 /\ n - 1 # 0
                     THEN [kind |-> "atoms", idx |-> n - 1]
                     ELSE [kind |-> "segment", idx |-> n - 1])

C3_RetryBound ==
    \A i \in DOMAIN active_tasks : active_tasks[i].sent <= track.max_retry

\* A segment failed after using every attempt of a retry budget above one.
C3_Witness ==
    /\ track.max_retry >= 2
    /\ \E i \in DOMAIN active_tasks :
          /\ TaskDone(i)
          /\ ~active_tasks[i].success
          /\ active_tasks[i].sent = track.max_retry
          /\ ~active_tasks[i].saw404

\* C4: a segment answered with 404 is not requested again, and it is
\* recorded as failed when the writer reaches it.
C4_NotFoundNotRetried ==
    /\ [][\A i \in DOMAIN active_tasks :
            (active_tasks[i].saw404 /\ i \in DOMAIN active_tasks')
                => active_tasks'[i].sent = active_tasks[i].sent]_vars
    /\ [][\A i \in DOMAIN active_tasks :
            (active_tasks[i].saw404 /\ i \notin DOMAIN active_tasks')
                => i \in failed_segments']_vars

\* C5: a download that was not cancelled fails with TrackIncomplete exactly
\* when the gap policy is exceeded, and returns normally otherwise.
C5_GapPolicyEnforced ==
    (pc = "done" /\ ~download_interrupted /\ result.raised # "RuntimeError")
        => (result.raised = "TrackIncomplete"
                <=> ~GapTolerated(track.total_segments,
                                  Cardinality(failed_segments)))

\* The origin answers 404 to every segment request
Only404 == track.origin = "scripted" /\ track.gaps = track.total_segments

\* C6: when every segment request is answered 404 the download ends and the
\* track fails with TrackIncomplete.
C6_AllNotFoundFails ==
    (pc = "done" /\ ~download_interrupted /\ Only404)
        => result.raised = "TrackIncomplete"

\* C7: downloaded and failed are disjoint, together hold at most N indices,
\* and neither ever loses an index.
C7_SetsDisjointMonotone ==
    /\ [](/\ Cardinality(downloaded_segments) + Cardinality(failed_segments)
                <= track.total_segments
          /\ downloaded_segments \cap failed_segments = {})
    /\ [][/\ downloaded_segments \subseteq downloaded_segments'
          /\ failed_segments \subseteq failed_segments']_vars

\* Both sets hold an index and every segment is accounted for.
C7_Witness ==
    /\ Cardinality(downloaded_segments) >= 1
    /\ Cardinality(failed_segments) >= 2
    /\ Cardinality(downloaded_segments) + Cardinality(failed_segments)
           = track.total_segments

\* C8: at most max_workers tasks are in flight, a task is only created for
\* next_to_download, which then grows by one, and
\* 0 <= next_to_write <= next_to_download <= N.
C8_WindowBounds ==
    /\ [](/\ Cardinality(DOMAIN active_tasks) <= track.max_workers
          /\ 0 <= next_to_write
          /\ next_to_write <= next_to_download
          /\ next_to_download <= track.total_segments)
    /\ [][/\ (DOMAIN active_tasks' \ DOMAIN active_tasks # {}) =>
                 /\ DOMAIN active_tasks' \ DOMAIN active_tasks
                        = {next_to_download}
                 /\ next_to_download' = next_to_download + 1
          /\ (next_to_download' # next_to_download) =>
                 /\ next_to_download' = next_to_download + 1
                 /\ next_to_download \in DOMAIN active_tasks'
                 /\ next_to_download \notin DOMAIN active_tasks]_vars

\* The window is full after it has slid over a written segment.
C8_Witness ==
    /\ track.max_workers >= 2
    /\ Cardinality(DOMAIN active_tasks) = track.max_workers
    /\ next_to_write >= 1
    /\ next_to_download = track.total_segments

\* C9: once download_interrupted is set no task is created and nothing more
\* is written; the file holds only segments below next_to_write, and the
\* download ends with the file closed and stopped = true.
C9_InterruptStops ==
    /\ [][download_interrupted =>
            /\ download_interrupted'
            /\ outfile' = outfile
            /\ next_to_download' = next_to_download
            /\ DOMAIN active_tasks' \subseteq DOMAIN active_tasks]_vars
    /\ [](download_interrupted =>
            \A p \in DOMAIN SegmentPart : SegmentPart[p].idx < next_to_write)
    /\ []((download_interrupted /\ pc = "done") =>
            (~file_open /\ result.stopped))

\* A download interrupted with tasks pending and segments written has ended.
C9_Witness ==
    /\ pc = "done"
    /\ result.stopped
    /\ Len(SegmentPart) >= 1
    /\ \E i \in DOMAIN active_tasks : active_tasks[i].phase = "done"
    /\ \E i \in DOMAIN active_tasks : active_tasks[i].phase = "in_flight"

\* ======================================================================
\* Part 2 (StatusSpec): MediaDownloader.start_download and the generator
\* N_m3u8DLWrapper.download it pulls.  Both are generators: the wrapper
\* runs only while start_download pulls it (sd_pc = "pull"), and
\* start_download runs only while its caller pulls it.
\* ======================================================================
NoTrack == [fetcher |-> "none"]

\* No segment fetcher is in use while the downloader object is studied
FetchParked ==
    /\ track = NoTrack
    /\ pc = "parked"
    /\ outfile = <<>>
    /\ file_open = FALSE
    /\ next_to_download = 0
    /\ next_to_write = 0
    /\ active_tasks = [i \in {} |-> NewTask]
    /\ downloaded_segments = {}
    /\ failed_segments = {}
    /\ info_nFailed = 0
    /\ download_interrupted = FALSE
    /\ init_state = "none"
    /\ result = NoResult

\* The inputs of a run: whether stream info was fetched beforehand, the
\* external subtitle list ("untagged": an entry whose language is None) and
\* whether subtitle languages are selected.
Jobs == [stream_info_given : BOOLEAN,
         external_subtitles : {"none", "tagged", "untagged"},
         select_audio_lang : BOOLEAN,
         select_subtitle_lang : BOOLEAN,
         use_raw_forDownload : BOOLEAN]

\* The track files N_m3u8DL-RE writes for a job: the video, the audio
\* unless --drop-audio, the subtitles when --select-subtitle is given.
TrackFiles(j) ==
    {"video"} \cup (IF j.select_audio_lang THEN {"audio"} ELSE {})
              \cup (IF j.select_subtitle_lang THEN {"subtitle"} ELSE {})

\* Stream info fetched beforehand has left the temp_analysis folder
FilesBefore(j) == IF j.stream_info_given THEN {"analysis"} ELSE {}

\* class DownloadStatus
Terminal == {"completed", "failed", "cancelled"}

\* What one run starts from, for a given job
StatusStart(j) ==
    /\ job = j
    /\ status = "not_started"
    /\ is_downloading = FALSE
    /\ sd_pc = "not_called"
    /\ sd_raised = "none"
    /\ update = NoUpdate
    /\ w_pc = "not_called"
    /\ process = "none"
    /\ ignore_file = FALSE
    /\ lines_read = 0
    /\ input_source = "none"
    /\ files = FilesBefore(j)

StatusInit ==
    /\ FetchParked
    /\ CoreParked
    /\ SelParked
    /\ AuxParked
    /\ \E j \in Jobs : StatusStart(j)

Event(st) == [status |-> st, has_404 |-> FALSE]

\* _update_status: the status after an event
StatusAfter(st, upd) ==
    CASE upd.status = "parsing" -> "parsing"
      [] upd.status \in {"selected", "downloading"} -> "downloading"
      [] upd.status = "completed" -> "completed"
      [] upd.status = "failed" -> IF upd.has_404 THEN st ELSE "failed"
      [] upd.status = "cancelled" -> "cancelled"
      [] OTHER -> st

\* _update_status: _is_downloading after an event
DownloadingAfter(flag, upd) ==
    IF \/ upd.status \in {"completed", "cancelled"}
       \/ (upd.status = "failed" /\ ~upd.has_404)
    THEN FALSE ELSE flag

\* `except KeyboardInterrupt` / `except Exception` of start_download
HandlerStatus(st, exc) ==
    IF exc = "KeyboardInterrupt" THEN "cancelled" ELSE "failed"

\* An exception reaches the handlers of start_download, which set the
\* status, clear _is_downloading and re-raise.
SD_Raise(exc) ==
    /\ status' = HandlerStatus(status, exc)
    /\ is_downloading' = FALSE
    /\ sd_raised' = exc
    /\ sd_pc' = "ended"

\* First pull of start_download: status_info is reset, the status becomes
\* PARSING and the wrapper's generator is created.
SD_Start ==
    /\ sd_pc = "not_called"
    /\ status' = "parsing"
    /\ is_downloading' = TRUE
    /\ sd_pc' = "pull"
    /\ w_pc' = "created"
    /\ UNCHANGED <<job, input_source, files, sd_raised, update, process, ignore_file, lines_read>>
    /\ UNCHANGED <<fetchVars, coreVars, selVars, auxVars>>

\* The wrapper suspends at a yield and hands the event to start_download
W_Yield(upd, at) ==
    /\ update' = upd
    /\ w_pc' = at
    /\ sd_pc' = "handle"
    /\ UNCHANGED <<status, is_downloading, sd_raised>>

\* Start of download(): the .ignore marker is created, stream info is
\* fetched when none was given, and "parsing" is yielded.
W_Start ==
    /\ sd_pc = "pull" /\ w_pc = "created"
    /\ ignore_file' = TRUE
    /\ files' = files \cup (IF job.stream_info_given THEN {"log"}
                                                    ELSE {"analysis"})
    /\ W_Yield(Event("parsing"), "at_parsing")
    /\ UNCHANGED <<job, input_source, process, lines_read>>
    /\ UNCHANGED <<fetchVars, coreVars, selVars, auxVars>>

\* Ctrl+C while get_available_streams waits for the analysis: it is raised
\* before the try block of download() and reaches start_download.
W_StartInterrupted ==
    /\ sd_pc = "pull" /\ w_pc = "created"
    /\ ~job.stream_info_given
    /\ ignore_file' = TRUE
    /\ w_pc' = "raised"
    /\ SD_Raise("KeyboardInterrupt")
    /\ UNCHANGED <<job, input_source, files, update, process, lines_read>>
    /\ UNCHANGED <<fetchVars, coreVars, selVars, auxVars>>

\* _find_raw_manifest: the raw manifest lies in the temp_analysis folder
RawManifest(on_disk) == "analysis" \in on_disk

\* The input of the download command: the raw manifest with --base-url
\* when use_raw_forDownload is set and the file is found, else the URL
InputSource(j, on_disk) ==
    IF j.use_raw_forDownload /\ RawManifest(on_disk) THEN "raw" ELSE "origin"

\* The command is built and logged, and "starting" is yielded
W_BuildCommand ==
    /\ sd_pc = "pull" /\ w_pc = "at_parsing"
    /\ input_source' = InputSource(job, files)
    /\ files' = files \cup {"log"}
    /\ W_Yield(Event("starting"), "at_starting")
    /\ UNCHANGED <<job, process, ignore_file, lines_read>>
    /\ UNCHANGED <<fetchVars, coreVars, selVars, auxVars>>

\* subprocess.Popen succeeds; the wrapper goes on to read the output
W_Popen ==
    /\ sd_pc = "pull" /\ w_pc = "at_starting"
    /\ process' = "running"
    /\ w_pc' = "reading"
    /\ UNCHANGED <<job, input_source, files, status, is_downloading, sd_pc, sd_raised, update,
                   ignore_file, lines_read>>
    /\ UNCHANGED <<fetchVars, coreVars, selVars, auxVars>>

InLoop == sd_pc = "pull" /\ w_pc \in {"reading", "at_line"}

LineKinds == {"other", "list_end", "selected", "progress", "404"}

\* One output line of the subprocess is read and parsed
W_Line ==
    /\ InLoop
    /\ process = "running"
    /\ lines_read < MaxLines
    /\ lines_read' = lines_read + 1
    /\ \E kind \in LineKinds :
         CASE kind = "other" ->
                 /\ w_pc' = "reading"
                 /\ UNCHANGED <<status, is_downloading, sd_pc, sd_raised,
                                update, process, ignore_file, files>>
           [] kind = "404" ->
                 /\ process' = "terminated"
                 /\ ignore_file' = FALSE
                 /\ W_Yield([status |-> "failed", has_404 |-> TRUE], "at_404")
                 /\ UNCHANGED files
           [] kind = "list_end" ->
                 \* the end of the stream list on a "Selected streams:"
                 \* line yields "selected" twice
                 /\ W_Yield(Event("selected"), "at_list_end")
                 /\ UNCHANGED <<process, ignore_file, files>>
           [] kind = "selected" ->
                 /\ W_Yield(Event("selected"), "at_line")
                 /\ UNCHANGED <<process, ignore_file, files>>
           [] kind = "progress" ->
                 \* the subprocess reports data written for its tracks
                 /\ files' = files \cup TrackFiles(job)
                 /\ W_Yield(Event("downloading"), "at_line")
                 /\ UNCHANGED <<process, ignore_file>>
    /\ UNCHANGED <<job, input_source>>
    /\ UNCHANGED <<fetchVars, coreVars, selVars, auxVars>>

\* The second "selected" of a line that ends the stream list
W_SelectedAgain ==
    /\ sd_pc = "pull" /\ w_pc = "at_list_end"
    /\ W_Yield(Event("selected"), "at_line")
    /\ UNCHANGED <<job, input_source, files, process, ignore_file, lines_read>>
    /\ UNCHANGED <<fetchVars, coreVars, selVars, auxVars>>

\* End of the output: process.wait(), then "failed" for a non-zero exit
\* code and "completed" otherwise; the marker is removed either way.
W_Eof ==
    /\ InLoop
    /\ process = "running"
    /\ process' = "exited"
    /\ ignore_file' = FALSE
    /\ \E returncode \in {0, 1} :
         IF returncode # 0
         THEN /\ W_Yield(Event("failed"), "at_failed")
              /\ UNCHANGED files
         ELSE /\ W_Yield(Event("completed"), "at_completed")
              /\ files' = files \cup TrackFiles(job)
    /\ UNCHANGED <<job, input_source, lines_read>>
    /\ UNCHANGED <<fetchVars, coreVars, selVars, auxVars>>

\* Ctrl+C inside the try block: the subprocess is terminated, the marker
\* removed and "cancelled" yielded.
W_Interrupt ==
    /\ InLoop
    /\ process' = "terminated"
    /\ ignore_file' = FALSE
    /\ W_Yield(Event("cancelled"), "at_cancelled")
    /\ UNCHANGED <<job, input_source, files, lines_read>>
    /\ UNCHANGED <<fetchVars, coreVars, selVars, auxVars>>

\* Another exception inside the try block (Popen cannot start the binary,
\* a line cannot be parsed): the subprocess, if any, is terminated, the
\* marker removed and "failed" yielded.
W_Error ==
    /\ sd_pc = "pull" /\ w_pc \in {"at_starting", "reading", "at_line"}
    /\ process' = IF process = "running" THEN "terminated" ELSE process
    /\ ignore_file' = FALSE
    /\ W_Yield(Event("failed"), "at_error")
    /\ UNCHANGED <<job, input_source, files, lines_read>>
    /\ UNCHANGED <<fetchVars, coreVars, selVars, auxVars>>

\* The generator returns after a "failed" or the "completed" event: the for
\* loop of start_download ends and its finally block runs.
W_Return ==
    /\ sd_pc = "pull" /\ w_pc \in {"at_404", "at_failed", "at_completed"}
    /\ w_pc' = "returned"
    /\ sd_pc' = "ended"
    /\ is_downloading' = FALSE
    /\ UNCHANGED <<job, input_source, files, status, sd_raised, update, process, ignore_file,
                   lines_read>>
    /\ UNCHANGED <<fetchVars, coreVars, selVars, auxVars>>

\* `raise` after the "cancelled" or the last "failed" event
W_Reraise ==
    /\ sd_pc = "pull" /\ w_pc \in {"at_cancelled", "at_error"}
    /\ w_pc' = "raised"
    /\ SD_Raise(IF w_pc = "at_cancelled" THEN "KeyboardInterrupt"
                                         ELSE "Exception")
    /\ UNCHANGED <<job, input_source, files, update, process, ignore_file, lines_read>>
    /\ UNCHANGED <<fetchVars, coreVars, selVars, auxVars>>

\* _update_status(update) up to the call of _process_completed_download.
\* A "completed" event always carries a DownloadResult object, so the call
\* is made whenever the event is "completed".
SD_UpdateStatus ==
    /\ sd_pc = "handle"
    /\ status' = StatusAfter(status, update)
    /\ is_downloading' = DownloadingAfter(is_downloading, update)
    /\ sd_pc' = IF update.status = "completed" THEN "post" ELSE "show"
    /\ UNCHANGED <<job, input_source, files, sd_raised, update, w_pc, process, ignore_file,
                   lines_read>>
    /\ UNCHANGED <<fetchVars, coreVars, selVars, auxVars>>

\* ext_sub.get('language', '').lower() on an entry whose language is None
\* raises AttributeError; the filter runs when subtitle languages are
\* selected.
ProcessCompletedRaises(j) ==
    j.external_subtitles = "untagged" /\ j.select_subtitle_lang

\* _process_completed_download(result), called with the status already set
SD_ProcessCompleted ==
    /\ sd_pc = "post"
    /\ IF ProcessCompletedRaises(job)
       THEN SD_Raise("Exception")
       ELSE /\ sd_pc' = "show"
            /\ UNCHANGED <<status, is_downloading, sd_raised>>
    /\ UNCHANGED <<job, input_source, files, update, w_pc, process, ignore_file, lines_read>>
    /\ UNCHANGED <<fetchVars, coreVars, selVars, auxVars>>

\* The progress display is refreshed and the event is yielded to the caller
SD_Yield ==
    /\ sd_pc = "show"
    /\ sd_pc' = "yielded"
    /\ UNCHANGED <<job, input_source, files, status, is_downloading, sd_raised, update, w_pc,
                   process, ignore_file, lines_read>>
    /\ UNCHANGED <<fetchVars, coreVars, selVars, auxVars>>

\* The caller pulls again: break after COMPLETED or FAILED (the finally
\* block runs and the wrapper's generator is dropped), else the next event
\* is pulled from the wrapper.
SD_Resume ==
    /\ sd_pc = "yielded"
    /\ IF status \in {"completed", "failed"}
       THEN /\ sd_pc' = "ended"
            /\ w_pc' = "closed"
            /\ is_downloading' = FALSE
       ELSE /\ sd_pc' = "pull"
            /\ UNCHANGED <<w_pc, is_downloading>>
    /\ UNCHANGED <<job, input_source, files, status, sd_raised, update, process, ignore_file,
                   lines_read>>
    /\ UNCHANGED <<fetchVars, coreVars, selVars, auxVars>>

\* The caller stops pulling and drops the generator: GeneratorExit is
\* raised at the yield, no handler matches it, the finally block runs and
\* the wrapper's generator is closed the same way.
SD_Close ==
    /\ sd_pc = "yielded"
    /\ sd_pc' = "closed"
    /\ w_pc' = "closed"
    /\ is_downloading' = FALSE
    /\ UNCHANGED <<job, input_source, files, status, sd_raised, update, process, ignore_file,
                   lines_read>>
    /\ UNCHANGED <<fetchVars, coreVars, selVars, auxVars>>

\* Ctrl+C while the body of the for loop runs: in _update_status, in
\* _process_completed_download (which fetches the external subtitles over
\* the network) or in the progress display.
SD_BodyInterrupt ==
    /\ sd_pc \in {"handle", "post", "show"}
    /\ SD_Raise("KeyboardInterrupt")
    /\ w_pc' = "closed"
    /\ UNCHANGED <<job, input_source, files, update, process, ignore_file, lines_read>>
    /\ UNCHANGED <<fetchVars, coreVars, selVars, auxVars>>

StatusNext ==
    \/ SD_Start
    \/ W_Start
    \/ W_StartInterrupted
    \/ W_BuildCommand
    \/ W_Popen
    \/ W_Line
    \/ W_SelectedAgain
    \/ W_Eof
    \/ W_Interrupt
    \/ W_Error
    \/ W_Return
    \/ W_Reraise
    \/ SD_UpdateStatus
    \/ SD_ProcessCompleted
    \/ SD_Yield
    \/ SD_Resume
    \/ SD_Close
    \/ SD_BodyInterrupt

StatusSpec == StatusInit /\ [][StatusNext]_vars

\* ========================================== claims on the downloader status
Rank(st) ==
    CASE st = "not_started" -> 0
      [] st = "parsing" -> 1
      [] st = "downloading" -> 2
      [] OTHER -> 3

\* C10: over one run of start_download the status only moves forward along
\* not_started -> parsing -> downloading -> {completed, failed, cancelled}
\* and a terminal status is never changed.
C10_StatusForwardOnly ==
    [][/\ Rank(status') >= Rank(status)
       /\ (status \in Terminal => status' = status)]_vars

\* The events after which the download is still going on
OngoingEvents == {"parsing", "starting", "selected", "downloading"}

\* C11: when the caller drops the event sequence before a terminal event,
\* the subprocess is terminated and the status becomes cancelled.
C11_AbandonCancels ==
    (sd_pc = "closed" /\ update.status \in OngoingEvents)
        => (status = "cancelled" /\ process # "running")

\* ======================================================================
\* Part 3 (CoreSpec): HLS_Downloader.start and DASH_Downloader.start.
\* The HLS orchestrator drives start_download of Part 2 and pulls every
\* event; the download of the DASH orchestrator is one step.
\* ======================================================================
Cores ==
    { c \in [downloader : {"HLS", "DASH"},
             file_already_exists : BOOLEAN,
             cleanup_tmp : BOOLEAN,          \* CLEANUP_TMP
             merge_subs : BOOLEAN,           \* MERGE_SUBTITLE
             encrypted : BOOLEAN,            \* the MPD declares protection
             pssh_found : BOOLEAN] :         \* available_drm_types is not []
        \* DASH_Downloader does not read MERGE_SUBTITLE
        /\ c.downloader = "DASH" => c.merge_subs
        \* HLS_Downloader has no DRM step; a PSSH comes with protection
        /\ c.downloader = "HLS" => ~c.encrypted
        /\ c.pssh_found => c.encrypted }

\* HLS_Downloader never passes external subtitles; the job fields that only
\* the HLS download reads are fixed for DASH.
CoreJobs(c) ==
    { j \in Jobs :
        /\ j.external_subtitles = "none"
        /\ (c.downloader = "DASH" =>
                ~j.stream_info_given /\ ~j.use_raw_forDownload) }

Op(name, arg) == [op |-> name, arg |-> arg]

CoreInit ==
    /\ FetchParked
    /\ SelParked
    /\ AuxParked
    /\ core \in Cores
    /\ core_pc = "start"
    /\ core_out = NoOut
    /\ current_file = "none"
    /\ done_ops = {}
    /\ job \in CoreJobs(core)
    /\ status = "not_started"
    /\ is_downloading = FALSE
    /\ sd_pc = "parked"
    /\ sd_raised = "none"
    /\ update = NoUpdate
    /\ w_pc = "parked"
    /\ process = "none"
    /\ ignore_file = FALSE
    /\ lines_read = 0
    /\ input_source = "none"
    /\ files = IF core.file_already_exists THEN {"output"} ELSE {}

\* start() returns (path, error)
Return(path, err) ==
    /\ core_out' = [path |-> path, error |-> err, raised |-> "none"]
    /\ core_pc' = "returned"

\* The next step when the output file does not exist yet
AfterExistsCheck(c) == IF c.downloader = "HLS" THEN "analyse" ELSE "dash"

\* The file-exists check is skipped
ShortCircuitsNever(c) == FALSE

\* `if self.file_already_exists`
ShortCircuits(c) == c.file_already_exists

\* start(): the output file exists already, or the work begins
Core_Start ==
    /\ core_pc = "start"
    /\ IF ShortCircuits(core)
       THEN Return("output", FALSE)
       ELSE /\ core_pc' = AfterExistsCheck(core)
            /\ UNCHANGED core_out
    /\ UNCHANGED <<core, current_file, done_ops>>
    /\ UNCHANGED <<fetchVars, statusVars, selVars, auxVars>>

\* HLS: media_downloader.get_available_streams(); the stream info it finds
\* is the one start_download is given.  The for loop over start_download
\* starts next.
Core_Analyse ==
    /\ core_pc = "analyse"
    /\ done_ops' = done_ops \cup {Op("analysis", "-")}
    /\ files' = files \cup FilesBefore(job)
    /\ sd_pc' = "not_called"
    /\ w_pc' = "not_called"
    /\ core_pc' = "loop"
    /\ UNCHANGED <<core, core_out, current_file>>
    /\ UNCHANGED <<job, status, is_downloading, sd_raised, update, process,
                   ignore_file, lines_read, input_source>>
    /\ UNCHANGED <<fetchVars, selVars, auxVars>>

\* HLS: the for loop has ended.  An exception of start_download leaves
\* start(); a status other than COMPLETED, or no video file, returns
\* (None, True); else the merge begins.
Core_AfterLoop ==
    /\ core_pc = "loop"
    /\ sd_pc = "ended"
    /\ IF sd_raised # "none"
       THEN /\ core_out' = [path |-> "none", error |-> TRUE,
                            raised |-> sd_raised]
            /\ core_pc' = "raised"
       ELSE IF status # "completed" \/ "video" \notin files
       THEN Return("none", TRUE)
       ELSE /\ core_pc' = "merge"
            /\ UNCHANGED core_out
    /\ UNCHANGED <<core, current_file, done_ops>>
    /\ UNCHANGED <<fetchVars, statusVars, selVars, auxVars>>

\* DASH: the stream analysis and _fetch_drm_info
Core_DashAnalyse ==
    /\ core_pc = "dash"
    /\ done_ops' = done_ops \cup {Op("analysis", "-")}
    /\ core_pc' = "dash_keys"
    /\ UNCHANGED <<core, core_out, current_file>>
    /\ UNCHANGED <<fetchVars, statusVars, selVars, auxVars>>

\* What _fetch_decryption_keys may do: set the keys and return True, return
\* True at once for want of a license URL, or return False
KeyFetchOutcomes == {"keys", "no_license_url", "failed"}

\* `if self.drm_info and self.drm_info['available_drm_types']`
FetchesKeys(c) == c.pssh_found

\* DASH: "Fetch decryption keys if DRM protected", then set_key and the
\* call of start_download.
Core_DashKeys ==
    /\ core_pc = "dash_keys"
    /\ \E outcome \in KeyFetchOutcomes :
         IF FetchesKeys(core) /\ outcome = "failed"
         THEN /\ done_ops' = done_ops \cup {Op("fetch_keys", outcome)}
              /\ Return("none", TRUE)
         ELSE /\ done_ops' = done_ops
                     \cup (IF FetchesKeys(core)
                           THEN {Op("fetch_keys", outcome)} ELSE {})
                     \cup {Op("set_key",
                              IF FetchesKeys(core) /\ outcome = "keys"
                              THEN "keys" ELSE "none")}
              /\ core_pc' = "dash_download"
              /\ UNCHANGED core_out
    /\ UNCHANGED <<core, current_file>>
    /\ UNCHANGED <<fetchVars, statusVars, selVars, auxVars>>

\* DASH: start_download, which leaves the analysis folder, the log and
\* some of the job's track files, or nothing.
Core_DashDownload ==
    /\ core_pc = "dash_download"
    /\ done_ops' = done_ops \cup {Op("download", "-")}
    /\ \E got \in SUBSET TrackFiles(job) :
         /\ files' = files \cup got \cup {"analysis", "log"}
         /\ IF got = {}
            THEN Return("none", TRUE)
            ELSE /\ core_pc' = "merge"
                 /\ UNCHANGED core_out
    /\ UNCHANGED <<core, current_file>>
    /\ UNCHANGED <<job, status, is_downloading, sd_pc, sd_raised, update,
                   w_pc, process, ignore_file, lines_read, input_source>>
    /\ UNCHANGED <<fetchVars, selVars, auxVars>>

\* The status lists a track of this kind and its file exists
HasTrack(kind, on_disk) == kind \in on_disk

\* Start of _merge_files: no video file is an error; with no other track
\* the video alone is muxed by join_video into the output path.
Core_MergeBegin ==
    /\ core_pc = "merge"
    /\ IF ~HasTrack("video", files)
       THEN /\ Return("none", TRUE)
            /\ UNCHANGED <<files, current_file, done_ops>>
       ELSE IF ~HasTrack("audio", files) /\ ~HasTrack("subtitle", files)
       THEN /\ done_ops' = done_ops \cup {Op("join_video", "video")}
            /\ \E merged \in BOOLEAN :
                 IF merged
                 THEN /\ files' = files \cup {"output"}
                      /\ current_file' = "output"
                      /\ core_pc' = "move"
                      /\ UNCHANGED core_out
                 ELSE /\ Return("none", TRUE)
                      /\ UNCHANGED <<files, current_file>>
       ELSE /\ current_file' = "video"
            /\ core_pc' = "merge_audio"
            /\ UNCHANGED <<files, core_out, done_ops>>
    /\ UNCHANGED core
    /\ UNCHANGED <<job, status, is_downloading, sd_pc, sd_raised, update,
                   w_pc, process, ignore_file, lines_read, input_source>>
    /\ UNCHANGED <<fetchVars, selVars, auxVars>>

\* join_audios(video_path=current_file, ...)
AudioInput(cur) == cur

\* "Merge audio tracks if present": join_audios writes *_with_audio; when
\* the file is there it becomes the current file.
Core_MergeAudio ==
    /\ core_pc = "merge_audio"
    /\ IF HasTrack("audio", files)
       THEN /\ done_ops' = done_ops
                    \cup {Op("join_audios", AudioInput(current_file))}
            /\ \E merged \in BOOLEAN :
                 IF merged
                 THEN /\ files' = files \cup {"with_audio"}
                      /\ current_file' = "with_audio"
                 ELSE UNCHANGED <<files, current_file>>
       ELSE UNCHANGED <<files, current_file, done_ops>>
    /\ core_pc' = "merge_subs"
    /\ UNCHANGED <<core, core_out>>
    /\ UNCHANGED <<job, status, is_downloading, sd_pc, sd_raised, update,
                   w_pc, process, ignore_file, lines_read, input_source>>
    /\ UNCHANGED <<fetchVars, selVars, auxVars>>

\* The subtitle merge starts again from the downloaded video
SubtitleInputVideo(cur) == "video"

\* join_subtitles(video_path=current_file, ...)
SubtitleInput(cur) == cur

\* `if current_file != video_path and os.path.exists(current_file)`
RemovesPredecessor(cur) == cur # "video"

\* "Merge subtitles if enabled and present": join_subtitles writes *_final;
\* when the file is there the predecessor, unless it is the downloaded
\* video, is removed and *_final becomes the current file.
Core_MergeSubs ==
    /\ core_pc = "merge_subs"
    /\ IF core.merge_subs /\ HasTrack("subtitle", files)
       THEN \E merged \in BOOLEAN :
              IF merged
              THEN /\ files' = (files \cup {"final"})
                          \ (IF RemovesPredecessor(current_file)
                             THEN {current_file} ELSE {})
                   /\ done_ops' = done_ops
                          \cup {Op("join_subtitles",
                                   SubtitleInput(current_file))}
                          \cup (IF RemovesPredecessor(current_file)
                                THEN {Op("remove", current_file)} ELSE {})
                   /\ current_file' = "final"
              ELSE /\ done_ops' = done_ops
                          \cup {Op("join_subtitles",
                                   SubtitleInput(current_file))}
                   /\ UNCHANGED <<files, current_file>>
       ELSE UNCHANGED <<files, current_file, done_ops>>
    /\ core_pc' = "move"
    /\ UNCHANGED <<core, core_out>>
    /\ UNCHANGED <<job, status, is_downloading, sd_pc, sd_raised, update,
                   w_pc, process, ignore_file, lines_read, input_source>>
    /\ UNCHANGED <<fetchVars, selVars, auxVars>>

\* The files _cleanup_temp_files removes: the downloaded tracks and the
\* intermediate merge outputs, except the one that is the output path, the
\* log and the analysis folder.
TempFiles(kept) ==
    {"video", "audio", "subtitle", "with_audio", "final", "log", "analysis"}
        \ {kept}

\* _cleanup_temp_files runs: HLS calls it and it returns at once when
\* CLEANUP_TMP is off, DASH calls it only when CLEANUP_TMP is on.
CleansUp(c) == c.cleanup_tmp

\* The end of start(): the merged file is moved to the output path (when
\* the move fails the merged file becomes the output path), the summary is
\* printed, the temporary files are cleaned up and the path is returned.
Core_Move ==
    /\ core_pc = "move"
    /\ \E moved \in BOOLEAN :
         LET out == IF current_file = "output" \/ moved THEN "output"
                    ELSE current_file
             afterMove == IF current_file # "output" /\ moved
                          THEN (files \ {current_file}) \cup {"output"}
                          ELSE files
             removed == IF CleansUp(core)
                        THEN afterMove \cap TempFiles(out) ELSE {}
         IN /\ files' = afterMove \ removed
            /\ done_ops' = done_ops \cup {Op("remove", f) : f \in removed}
            /\ Return(out, FALSE)
    /\ UNCHANGED <<core, current_file>>
    /\ UNCHANGED <<job, status, is_downloading, sd_pc, sd_raised, update,
                   w_pc, process, ignore_file, lines_read, input_source>>
    /\ UNCHANGED <<fetchVars, selVars, auxVars>>

\* The caller of start_download inside HLS_Downloader.start is a for loop
\* that pulls every event: the generator is never dropped half-way.
CoreNext ==
    \/ Core_Start
    \/ Core_Analyse
    \/ Core_DashAnalyse
    \/ Core_DashKeys
    \/ Core_DashDownload
    \/ Core_AfterLoop
    \/ Core_MergeBegin
    \/ Core_MergeAudio
    \/ Core_MergeSubs
    \/ Core_Move
    \/ SD_Start
    \/ W_Start
    \/ W_StartInterrupted
    \/ W_BuildCommand
    \/ W_Popen
    \/ W_Line
    \/ W_SelectedAgain
    \/ W_Eof
    \/ W_Interrupt
    \/ W_Error
    \/ W_Return
    \/ W_Reraise
    \/ SD_UpdateStatus
    \/ SD_ProcessCompleted
    \/ SD_Yield
    \/ SD_Resume
    \/ SD_BodyInterrupt

CoreSpec == CoreInit /\ [][CoreNext]_vars

\* ================================================ claims on the orchestrator
CoreEnded == core_pc \in {"returned", "raised"}

\* The intermediate files of a job
Intermediates ==
    {"video", "audio", "subtitle", "with_audio", "final", "log", "analysis"}

\* C12: when a download is cancelled and the cleanup flag is set, no
\* intermediate file of the job is left when start() gives control back.
C12_CancelCleansUp ==
    (CoreEnded /\ status = "cancelled" /\ core.cleanup_tmp)
        => files \cap Intermediates = {}

\* The wrapper's download() is over: it returned, raised, or was dropped
\* after its last event
DownloadEnded ==
    \/ w_pc \in {"returned", "raised"}
    \/ (w_pc = "closed" /\ update.status \in {"completed", "failed",
                                               "cancelled"})

\* C13: once the download has ended, however it ended, the .ignore marker
\* is gone.
C13_MarkerRemoved == DownloadEnded => ~ignore_file

\* C14: a run does not end on a 404 met while downloading from the raw
\* manifest: the download is attempted again from the origin URL, so when
\* start() returns after a 404 the last attempt read the origin.
C14_FallbackToOrigin ==
    (core_pc = "returned" /\ update.has_404) => input_source = "origin"

\* C15: when the output file exists already, start() returns the output
\* path without error and has run no analysis, no download, no merge and
\* no deletion.
C15_ExistingOutputShortCircuit ==
    core.file_already_exists =>
        /\ done_ops = {}
        /\ sd_pc = "parked"
        /\ process = "none"
        /\ files = {"output"}
        /\ (core_pc # "start" =>
                /\ core_pc = "returned"
                /\ core_out = [path |-> "output", error |-> FALSE,
                               raised |-> "none"])

\* start() has returned for an existing output, with the cleanup flag on
C15_Witness ==
    /\ core.file_already_exists
    /\ core.cleanup_tmp
    /\ core_pc = "returned"
    /\ core_out.path = "output"

\* The positions of start() from the first merge to the end of _merge_files
MergeStep == {"merge_audio", "merge_subs", "move"}

VideoFiles == {"video", "with_audio", "final", "output"}

\* C17: from the merge step on, start() reports a failure only when no
\* file holding the video track exists; whenever such a file exists, a
\* failed audio or subtitle merge included, it returns a file that holds
\* the video track without error.
C17_FailsOnlyWithoutVideo ==
    [][(core_pc \in {"merge"} \cup MergeStep /\ core_pc' = "returned")
       => IF files \cap VideoFiles = {}
          THEN core_out'.error
          ELSE /\ ~core_out'.error
               /\ core_out'.path \in VideoFiles
               /\ core_out'.path \in files']_vars

\* ------------------------------------------------------------------------
\* Part 4: the selection of the streams to download
\* ------------------------------------------------------------------------

DigitChar == <<"0", "1", "2", "3", "4", "5", "6", "7", "8", "9">>

\* str(n): the decimal digits of a number
RECURSIVE Digits(_)
Digits(n) ==
    IF n < 10 THEN <<DigitChar[n + 1]>>
    ELSE Append(Digits(n \div 10), DigitChar[(n % 10) + 1])

\* The "Resolution" of meta.json: width, "x", height
ResolutionString(size) == Digits(size[1]) \o <<"x">> \o Digits(size[2])

\* Python's `sub in s` on strings
Contains(sub, s) ==
    \E i \in 1..(Len(s) - Len(sub) + 1) : SubSeq(s, i, i + Len(sub) - 1) = sub

\* str.lower() on the words in use
Lower(w) ==
    CASE w = "IT" -> "it"
      [] w = "Italian" -> "italian"
      [] w = "English" -> "english"
      [] w = "All" -> "all"
      [] OTHER -> w

\* Frame sizes of the video streams: width and height
Sizes == {<<1920, 1080>>, <<1280, 720>>, <<720, 576>>}

\* Bandwidth // 1000 of the video streams
Kbps == {1, 2}

\* The heights a "<height>p" resolution may ask for
AskedHeights == {1080, 720, 480}

\* Language code and name of the audio and subtitle streams
Languages == {<<"it", "Italian">>, <<"en", "English">>}

\* Language tags a caller may put in select_audio_lang / select_subtitle_lang
Tags == {"it", "IT", "Italian", "All", "*", "fr"}

\* The Stream the parser builds for a VIDEO item
VideoStream(size, k) ==
    [type |-> "Video", resolution |-> ResolutionString(size), bitrate |-> k,
     language |-> "-", lang_code |-> "-", language_long |-> "-"]

\* The Stream the parser builds for an AUDIO or SUBTITLES item: language and
\* lang_code both hold the language code, language_long holds the name.
LangStream(type, l) ==
    [type |-> type, resolution |-> <<"-">>, bitrate |-> 0,
     language |-> l[1], lang_code |-> l[1], language_long |-> l[2]]

SeqsUpTo(S, n) == UNION {[1..k -> S] : k \in 0..n}

\* meta.json lists the video streams by decreasing bandwidth
ByBandwidth(vs) ==
    \A i \in 1..(Len(vs) - 1) : vs[i].bitrate >= vs[i + 1].bitrate

VideoLists ==
    {vs \in SeqsUpTo({VideoStream(z, k) : z \in Sizes, k \in Kbps}, MaxVideo) :
        ByBandwidth(vs)}

AudioLists == SeqsUpTo({LangStream("Audio", l) : l \in Languages}, MaxAudio)

\* _deduplicate_subtitles keeps one subtitle stream of each language
SubtitleLists ==
    {ss \in SeqsUpTo({LangStream("Subtitle", l) : l \in Languages}, MaxSubs) :
        \A i, j \in 1..Len(ss) : ss[i] = ss[j] => i = j}

TagLists == SeqsUpTo(Tags, MaxTags)

\* config.set_resolution: "best", "worst", "<num>p" or anything else
Resolutions ==
    {[kind |-> "best"], [kind |-> "worst"], [kind |-> "other"]}
        \cup {[kind |-> "p", num |-> h] : h \in AskedHeights}

Config(res, audio, subs) ==
    [set_resolution |-> res, select_audio_lang |-> audio,
     select_subtitle_lang |-> subs]

SelStart(streams, config) ==
    /\ sel_streams = streams
    /\ sel_config = config
    /\ sel_request = config
    /\ sel_plan = NoPlan
    /\ sel_smart = FALSE

\* Either a manifest of video streams under every resolution, or a manifest
\* of one video stream and audio and subtitle streams under every request.
SelInit ==
    /\ FetchParked
    /\ StatusParked
    /\ CoreParked
    /\ AuxParked
    /\ \/ \E vs \in VideoLists, res \in Resolutions :
            SelStart(vs, Config(res, <<>>, <<>>))
       \/ \E as \in AudioLists, ss \in SubtitleLists, at, st \in TagLists :
            /\ as \o ss # <<>>
            /\ SelStart(<<VideoStream(<<1280, 720>>, 2)>> \o as \o ss,
                        Config([kind |-> "best"], at, st))

\* StreamInfo.video_streams / audio_streams / subtitle_streams
StreamsOfType(streams, type) == SelectSeq(streams, LAMBDA s : s.type = type)

NoStream == [type |-> "none"]

\* `for stream in video_streams: if stream.resolution and target_height in
\* stream.resolution: selected_video = stream; break`
FirstMatch(vs, target) ==
    LET hits == {i \in 1..Len(vs) : /\ vs[i].resolution # <<>>
                                    /\ Contains(target, vs[i].resolution)}
    IN IF hits = {} THEN NoStream
       ELSE vs[CHOOSE i \in hits : \A j \in hits : i <= j]

\* The selected_video of get_streams_json
SelectedVideo(vs, res) ==
    IF vs = <<>> THEN NoStream
    ELSE IF res.kind = "best" THEN vs[1]
    ELSE IF res.kind = "worst" THEN vs[Len(vs)]
    ELSE IF res.kind = "p"
    THEN LET m == FirstMatch(vs, Digits(res.num))
         IN IF m = NoStream THEN vs[1] ELSE m
    ELSE vs[1]

\* will_download of an Audio or Subtitle stream
LangSelected(stream, langs) ==
    \/ \E i \in 1..Len(langs) : Lower(langs[i]) = "all"
    \/ \E i \in 1..Len(langs) : langs[i] = "*"
    \/ \E i \in 1..Len(langs) :
         \/ Lower(langs[i]) = Lower(stream.language)
         \/ Lower(langs[i]) = Lower(stream.lang_code)

\* get_streams_json: the "selected" flag of every stream, in order
GetStreamsJson(streams, config) ==
    IF streams = <<>> THEN [made |-> TRUE, success |-> FALSE]
    ELSE LET selected_video ==
                 SelectedVideo(StreamsOfType(streams, "Video"),
                               config.set_resolution)
         IN [made |-> TRUE, success |-> TRUE,
             selected |->
               [i \in 1..Len(streams) |->
                  IF streams[i].type = "Video"
                  THEN streams[i] = selected_video
                  ELSE IF streams[i].type = "Audio"
                  THEN LangSelected(streams[i], config.select_audio_lang)
                  ELSE LangSelected(streams[i],
                                    config.select_subtitle_lang)]]

Sel_GetStreamsJson ==
    /\ sel_config # NoConfig
    /\ sel_plan = NoPlan
    /\ sel_plan' = GetStreamsJson(sel_streams, sel_config)
    /\ UNCHANGED <<sel_streams, sel_config, sel_request, sel_smart>>
    /\ UNCHANGED <<fetchVars, statusVars, coreVars, auxVars>>

\* The lower-cased language and lang_code of the streams, "-" left out
AvailableLangs(ts) ==
    {Lower(ts[i].language) : i \in {j \in 1..Len(ts) : ts[j].language # "-"}}
        \cup {Lower(ts[i].lang_code) :
                 i \in {j \in 1..Len(ts) : ts[j].lang_code # "-"}}

\* list(a_set): the elements in some order
ListsOf(S) ==
    {f \in [1..Cardinality(S) -> S] :
        \A i, j \in 1..Cardinality(S) : f[i] = f[j] => i = j}

\* A request that matches nothing is left as it is
SmartLangsNoFallback(ts, requested) ==
    LET langs == [i \in 1..Len(requested) |-> Lower(requested[i])]
        available == AvailableLangs(ts)
        matched == SelectSeq(langs, LAMBDA l : l \in available)
    IN IF ts = <<>> THEN {requested}
       ELSE IF \/ langs = <<>>
               \/ \E i \in 1..Len(langs) : langs[i] \in {"all", "*"}
       THEN ListsOf(available)
       ELSE {matched}

\* The values _apply_smart_selection may leave in a language list
SmartLangs(ts, requested) ==
    LET langs == [i \in 1..Len(requested) |-> Lower(requested[i])]
        available == AvailableLangs(ts)
        matched == SelectSeq(langs, LAMBDA l : l \in available)
    IN IF ts = <<>> THEN {requested}
       ELSE IF \/ langs = <<>>
               \/ \E i \in 1..Len(langs) : langs[i] \in {"all", "*"}
       THEN ListsOf(available)
       ELSE IF matched = <<>>
       THEN {<<IF ts[1].lang_code # "-" THEN ts[1].lang_code
               ELSE ts[1].language>>}
       ELSE {matched}

\* start_download calls _apply_smart_selection, which rewrites the
\* language lists of the configuration.
Sel_ApplySmartSelection ==
    /\ sel_config # NoConfig
    /\ ~sel_smart
    /\ \E audio \in SmartLangs(StreamsOfType(sel_streams, "Audio"),
                               sel_config.select_audio_lang),
          subs \in SmartLangs(StreamsOfType(sel_streams, "Subtitle"),
                              sel_config.select_subtitle_lang) :
         sel_config' = Config(sel_config.set_resolution, audio, subs)
    /\ sel_smart' = TRUE
    /\ sel_plan' = NoPlan
    /\ UNCHANGED <<sel_streams, sel_request>>
    /\ UNCHANGED <<fetchVars, statusVars, coreVars, auxVars>>

SelectNext ==
    \/ Sel_GetStreamsJson
    \/ Sel_ApplySmartSelection

SelectSpec == SelInit /\ [][SelectNext]_vars

\* The indices of the streams of a type
IndicesOfType(type) ==
    {i \in 1..Len(sel_streams) : sel_streams[i].type = type}

\* The height of a video stream
Height(s) == (CHOOSE z \in Sizes : ResolutionString(z) = s.resolution)[2]

\* The streams a plan marks as selected
Marked(plan, type) == {i \in IndicesOfType(type) : plan.selected[i]}

\* C18: under "<height>p" the selected video has the asked height and the
\* highest bandwidth among the streams of that height; when no stream has
\* that height the plan is the plan of "best".
C18_HeightSelectsBestOfHeight ==
    (/\ sel_plan.made
     /\ sel_plan.success
     /\ sel_config.set_resolution.kind = "p")
    => LET videos == IndicesOfType("Video")
           asked == sel_config.set_resolution.num
           same == {i \in videos : Height(sel_streams[i]) = asked}
       IN IF same = {}
          THEN sel_plan = GetStreamsJson(sel_streams,
                              [sel_config EXCEPT !.set_resolution =
                                                     [kind |-> "best"]])
          ELSE \A i \in Marked(sel_plan, "Video") :
                 /\ i \in same
                 /\ \A j \in same :
                      sel_streams[j].bitrate <= sel_streams[i].bitrate

\* C19: a plan for a manifest with at least one video stream marks exactly
\* one video stream as selected, whatever the resolution setting.
C19_ExactlyOneVideo ==
    (sel_plan.made /\ sel_plan.success /\ IndicesOfType("Video") # {})
    => Cardinality(Marked(sel_plan, "Video")) = 1

\* The list the caller asked for, for the streams of a type
Requested(type) ==
    IF type = "Audio" THEN sel_request.select_audio_lang
    ELSE sel_request.select_subtitle_lang

\* A tag names the stream: it equals, letter case aside, the language code
\* or the language name
TagNames(tag, stream) ==
    \/ Lower(tag) = Lower(stream.lang_code)
    \/ Lower(tag) = Lower(stream.language_long)

\* C20: an audio or subtitle stream is marked as selected when a requested
\* tag equals, letter case aside, its language code or its language name,
\* and when the requested list holds "all" or "*".
C20_LanguageSelected ==
    (sel_plan.made /\ sel_plan.success)
    => \A i \in IndicesOfType("Audio") \cup IndicesOfType("Subtitle") :
         LET req == Requested(sel_streams[i].type)
         IN (\E k \in 1..Len(req) :
                \/ TagNames(req[k], sel_streams[i])
                \/ Lower(req[k]) = "all"
                \/ req[k] = "*")
            => sel_plan.selected[i]

\* The language list of the rewritten configuration, for a type of stream
Configured(type) ==
    IF type = "Audio" THEN sel_config.select_audio_lang
    ELSE sel_config.select_subtitle_lang

\* The first stream of a type
FirstOfType(type) == StreamsOfType(sel_streams, type)[1]

\* No stream of the type is matched by the list the caller asked for
MatchesNone(type) ==
    \A i \in IndicesOfType(type) :
        ~LangSelected(sel_streams[i], Requested(type))

\* C21: when the requested audio (subtitle) list matches no stream of that
\* kind and such a stream exists, _apply_smart_selection leaves a non-empty
\* list that selects the first stream of that kind, and the plan made from
\* it marks that stream.
C21_FallbackSelectsFirst ==
    \A type \in {"Audio", "Subtitle"} :
        (sel_smart /\ IndicesOfType(type) # {} /\ MatchesNone(type))
        => /\ Configured(type) # <<>>
           /\ LangSelected(FirstOfType(type), Configured(type))
           /\ (sel_plan.made =>
                 \A i \in IndicesOfType(type) :
                    (\A j \in IndicesOfType(type) : i <= j)
                    => sel_plan.selected[i])

\* a request for "fr" against Italian and English audio was rewritten to
\* the language of the first audio stream and a plan was made from it
C21_Witness ==
    /\ sel_smart
    /\ sel_plan.made
    /\ sel_request.select_audio_lang = <<"fr">>
    /\ Len(StreamsOfType(sel_streams, "Audio")) = 2
    /\ sel_config.select_audio_lang = <<FirstOfType("Audio").lang_code>>
    /\ sel_config.select_audio_lang # sel_request.select_audio_lang

\* ------------------------------------------------------------------------
\* Part 5: the DRM resolvers get_widevine_keys and get_playready_keys
\* ------------------------------------------------------------------------

\* The keys a license may load into the CDM session
KeyA == [type |-> "CONTENT", kid |-> <<"a", "1">>, key |-> <<"e", "1">>]
KeyB == [type |-> "CONTENT", kid |-> <<"b", "2">>, key |-> <<"e", "2">>]
KeyZero == [type |-> "CONTENT", kid |-> <<"0", "0">>, key |-> <<"e", "3">>]
KeySigning == [type |-> "SIGNING", kid |-> <<"0", "c">>, key |-> <<"e", "4">>]

\* cdm.get_keys(session_id) lists the keys of the session in a fixed order
KeyOrder == <<KeyA, KeyB, KeyZero, KeySigning>>

LicenseKeys == {KeyOrder[i] : i \in 1..Len(KeyOrder)}

\* cdm.get_keys(session_id): every key of the session, of every type
GetKeys(session) == SelectSeq(KeyOrder, LAMBDA k : k \in session)

\* `all(c == '0' for c in kid)`
AllZero(kid) == \A i \in 1..Len(kid) : kid[i] = "0"

\* f"{kid}:{key}"
FormattedKey(kid, key) == [kid |-> kid, key |-> key]

\* The loop over cdm.get_keys: skip the all-zero KID, append what is new
RECURSIVE ExtractKeys(_, _)
ExtractKeys(list, keys) ==
    IF keys = <<>> THEN list
    ELSE LET k == Head(keys)
             f == FormattedKey(k.kid, k.key)
         IN IF AllZero(k.kid) THEN ExtractKeys(list, Tail(keys))
            ELSE IF \E i \in 1..Len(list) : list[i] = f
            THEN ExtractKeys(list, Tail(keys))
            ELSE ExtractKeys(Append(list, f), Tail(keys))

\* str.split(':')
RECURSIVE Split(_)
Split(str) ==
    IF \A i \in 1..Len(str) : str[i] # ":" THEN <<str>>
    ELSE LET at == CHOOSE i \in 1..Len(str) :
                      /\ str[i] = ":"
                      /\ \A j \in 1..(i - 1) : str[j] # ":"
         IN <<SubSeq(str, 1, at - 1)>> \o Split(SubSeq(str, at + 1, Len(str)))

\* str.replace('-', '')
NoDashes(str) == SelectSeq(str, LAMBDA c : c # "-")

\* str.strip()
RECURSIVE Strip(_)
Strip(str) ==
    IF str = <<>> THEN str
    ELSE IF Head(str) = " " THEN Strip(Tail(str))
    ELSE IF str[Len(str)] = " " THEN Strip(SubSeq(str, 1, Len(str) - 1))
    ELSE str

\* The `key` argument: none, or a raw string
RawKeys ==
    {<<>>,
     <<"A", "-", "b", ":", "C", "-", "1">>,
     <<"a", "b", ":", "c", "1", " ">>,
     <<"a", "b", "c", "1">>}

Returns(value) == [kind |-> "return", none |-> FALSE, value |-> value]

ReturnsNone == [kind |-> "return", none |-> TRUE, value |-> <<>>]

Raises == [kind |-> "raise", none |-> TRUE, value |-> <<>>]

DrmInit ==
    /\ FetchParked
    /\ StatusParked
    /\ CoreParked
    /\ SelParked
    /\ DrmIdleParked
    /\ drm \in [system : {"widevine", "playready"},
                cdm_device_path : {"None", "path"},
                license_url : {"None", "url"},
                key : RawKeys,
                pssh_count : 0..MaxPssh]
    /\ drm_pc = "start"
    /\ drm_i = 0
    /\ drm_opened = 0
    /\ drm_closed = 0
    /\ drm_posts = 0
    /\ session_keys = {}
    /\ all_content_keys = <<>>
    /\ drm_out = NoDrmOut

\* The function leaves before the try statement
DrmLeaves(out) ==
    /\ drm_out' = out
    /\ drm_pc' = IF out.kind = "raise" THEN "raised" ELSE "returned"

\* The function leaves the try statement: the finally clause is next
DrmLeavesTry(out) ==
    /\ drm_out' = out
    /\ drm_pc' = "finally"

\* `continue`
DrmContinue ==
    /\ drm_i' = drm_i + 1
    /\ drm_pc' = "loop"

\* The statements before the try: the device path test, the raw key, then
\* Device.load, Cdm.from_device and cdm.open.
Drm_Call ==
    /\ drm_pc = "start"
    /\ IF drm.cdm_device_path = "None"
       THEN DrmLeaves(ReturnsNone) /\ UNCHANGED drm_opened
       ELSE IF drm.key # <<>>
       THEN LET k_split == Split(drm.key)
            IN /\ IF Len(k_split) = 2
                  THEN DrmLeaves(Returns(
                           <<FormattedKey(Strip(NoDashes(k_split[1])),
                                          Strip(NoDashes(k_split[2])))>>))
                  ELSE DrmLeaves(ReturnsNone)
               /\ UNCHANGED drm_opened
       ELSE \E loaded \in BOOLEAN :
              IF loaded
              THEN /\ drm_opened' = drm_opened + 1
                   /\ drm_pc' = "loop"
                   /\ UNCHANGED drm_out
              ELSE DrmLeaves(Raises) /\ UNCHANGED drm_opened
    /\ UNCHANGED <<drm, drm_i, drm_closed, drm_posts, session_keys,
                   all_content_keys>>
    /\ UNCHANGED <<fetchVars, statusVars, coreVars, selVars, drmIdle>>

\* `for i, item in enumerate(pssh_list)`, and after the loop the return
Drm_Loop ==
    /\ drm_pc = "loop"
    /\ IF drm_i < drm.pssh_count
       THEN drm_pc' = "challenge" /\ UNCHANGED drm_out
       ELSE DrmLeavesTry(IF all_content_keys # <<>>
                         THEN Returns(all_content_keys) ELSE ReturnsNone)
    /\ UNCHANGED <<drm, drm_i, drm_opened, drm_closed, drm_posts,
                   session_keys, all_content_keys>>
    /\ UNCHANGED <<fetchVars, statusVars, coreVars, selVars, drmIdle>>

\* What the challenge step does with each outcome.  Widevine builds the
\* PSSH and the challenge inside one try; PlayReady guards PSSH() and the
\* empty wrm_headers only, not get_license_challenge.
ChallengeFailureCaught(system, outcome) ==
    IF system = "widevine" THEN outcome \in {"bad_pssh", "challenge_raises"}
    ELSE outcome \in {"bad_pssh", "no_wrm_headers"}

ChallengeOutcomes(system) ==
    IF system = "widevine" THEN {"ok", "bad_pssh", "challenge_raises"}
    ELSE {"ok", "bad_pssh", "no_wrm_headers", "challenge_raises"}

\* The challenge, then `if license_url is None: continue`
Drm_Challenge ==
    /\ drm_pc = "challenge"
    /\ \E outcome \in ChallengeOutcomes(drm.system) :
         IF outcome = "ok"
         THEN IF drm.license_url = "None"
              THEN DrmContinue /\ UNCHANGED drm_out
              ELSE drm_pc' = "post" /\ UNCHANGED <<drm_i, drm_out>>
         ELSE IF ChallengeFailureCaught(drm.system, outcome)
         THEN DrmContinue /\ UNCHANGED drm_out
         ELSE DrmLeavesTry(Raises) /\ UNCHANGED drm_i
    /\ UNCHANGED <<drm, drm_opened, drm_closed, drm_posts, session_keys,
                   all_content_keys>>
    /\ UNCHANGED <<fetchVars, statusVars, coreVars, selVars, drmIdle>>

\* The bodies a 200 response may carry
Bodies(system) ==
    IF system = "widevine"
    THEN {"license", "json_license", "json_without_license", "json_invalid",
          "empty"}
    ELSE {"license"}

\* requests.post and the tests on the response
Drm_Post ==
    /\ drm_pc = "post"
    /\ drm_posts' = drm_posts + 1
    /\ \E answer \in {"raises", "not_200", "200"} :
         IF answer = "raises" THEN DrmLeavesTry(Raises) /\ UNCHANGED drm_i
         ELSE IF answer = "not_200" THEN DrmContinue /\ UNCHANGED drm_out
         ELSE \E body \in Bodies(drm.system) :
                IF body \in {"license", "json_license"}
                THEN drm_pc' = "parse" /\ UNCHANGED <<drm_i, drm_out>>
                ELSE DrmContinue /\ UNCHANGED drm_out
    /\ UNCHANGED <<drm, drm_opened, drm_closed, session_keys,
                   all_content_keys>>
    /\ UNCHANGED <<fetchVars, statusVars, coreVars, selVars, drmIdle>>

\* cdm.parse_license inside its try: the keys of the license join the
\* session, or the error is printed and the loop continues.
Drm_Parse ==
    /\ drm_pc = "parse"
    /\ \E parsed \in BOOLEAN :
         IF parsed
         THEN /\ \E license \in SUBSET LicenseKeys :
                   session_keys' = session_keys \cup license
              /\ drm_pc' = "get_keys"
              /\ UNCHANGED drm_i
         ELSE DrmContinue /\ UNCHANGED session_keys
    /\ UNCHANGED <<drm, drm_opened, drm_closed, drm_posts, all_content_keys,
                   drm_out>>
    /\ UNCHANGED <<fetchVars, statusVars, coreVars, selVars, drmIdle>>

\* "Extract CONTENT keys": the loop over cdm.get_keys(session_id)
Drm_GetKeys ==
    /\ drm_pc = "get_keys"
    /\ \E listed \in BOOLEAN :
         IF listed
         THEN /\ all_content_keys' =
                     ExtractKeys(all_content_keys, GetKeys(session_keys))
              /\ DrmContinue
              /\ UNCHANGED drm_out
         ELSE /\ DrmLeavesTry(Raises)
              /\ UNCHANGED <<drm_i, all_content_keys>>
    /\ UNCHANGED <<drm, drm_opened, drm_closed, drm_posts, session_keys>>
    /\ UNCHANGED <<fetchVars, statusVars, coreVars, selVars, drmIdle>>

\* The session is closed on a return only
ClosedOnReturnOnly(out, closed) ==
    IF out.kind = "raise" THEN closed ELSE closed + 1

\* `finally: cdm.close(session_id)`
ClosedInFinally(out, closed) == closed + 1

Drm_Finally ==
    /\ drm_pc = "finally"
    /\ drm_closed' = ClosedInFinally(drm_out, drm_closed)
    /\ drm_pc' = IF drm_out.kind = "raise" THEN "raised" ELSE "returned"
    /\ UNCHANGED <<drm, drm_i, drm_opened, drm_posts, session_keys,
                   all_content_keys, drm_out>>
    /\ UNCHANGED <<fetchVars, statusVars, coreVars, selVars, drmIdle>>

DrmNext ==
    \/ Drm_Call
    \/ Drm_Loop
    \/ Drm_Challenge
    \/ Drm_Post
    \/ Drm_Parse
    \/ Drm_GetKeys
    \/ Drm_Finally

DrmSpec == DrmInit /\ [][DrmNext]_vars

\* The call is over
DrmEnded == drm_pc \in {"returned", "raised"}

\* The pairs of the keys the session holds, the all-zero KID left out
Obtained ==
    {FormattedKey(k.kid, k.key) : k \in {x \in session_keys : ~AllZero(x.kid)}}

\* C22: a call that opened a session goes through every entry of pssh_list
\* whatever fails for some of them and returns the keys obtained, each
\* once; it returns None only when no key was obtained.
C22_FailuresSkipped ==
    (DrmEnded /\ drm_opened > 0)
    => /\ drm_out.kind = "return"
       /\ drm_i = drm.pssh_count
       /\ drm_out.none <=> Obtained = {}
       /\ {drm_out.value[i] : i \in 1..Len(drm_out.value)} = Obtained
       /\ \A i, j \in 1..Len(drm_out.value) :
             drm_out.value[i] = drm_out.value[j] => i = j

\* C23: the session the call opened is closed exactly once when the call
\* is over, however it ends, and is not closed before.
C23_SessionClosedOnce ==
    /\ drm_opened <= 1
    /\ drm_closed = IF DrmEnded THEN drm_opened ELSE 0

\* a call that sent a license request ended with an exception and the
\* session closed
C23_Witness ==
    /\ drm_pc = "raised"
    /\ drm_posts > 0
    /\ drm_opened = 1
    /\ drm_closed = 1

\* C24: every pair the protocol returns is the pair of a license key of
\* type CONTENT, and none has an all-zero KID.
C24_OnlyContentKeys ==
    (DrmEnded /\ drm_opened > 0 /\ drm_out.kind = "return")
    => \A i \in 1..Len(drm_out.value) :
         /\ ~AllZero(drm_out.value[i].kid)
         /\ \E k \in LicenseKeys :
              /\ k.type = "CONTENT"
              /\ FormattedKey(k.kid, k.key) = drm_out.value[i]

\* str.lower() on the characters in use
LowerChar(c) ==
    CASE c = "A" -> "a"
      [] c = "C" -> "c"
      [] OTHER -> c

\* A part of a raw key in normal form: no dash, no blank end, lower case
Normalized(part) ==
    LET bare == Strip(NoDashes(part))
    IN [i \in 1..Len(bare) |-> LowerChar(bare[i])]

\* C25: a call with a raw KID:KEY string opens no session, sends no license
\* request and returns that one pair in lower case without dashes.
C25_RawKeyBypass ==
    (DrmEnded /\ Len(Split(drm.key)) = 2)
    => /\ drm_opened = 0
       /\ drm_posts = 0
       /\ drm_out = Returns(<<FormattedKey(Normalized(Split(drm.key)[1]),
                                           Normalized(Split(drm.key)[2]))>>)

\* C27: when the content is encrypted and the manifest yields no PSSH of an
\* accepted DRM system, DASH_Downloader.start does not go on to the media
\* download without keys, and what it returns is a failure.
C27_NoDownloadWithoutPssh ==
    (/\ core.downloader = "DASH"
     /\ core.encrypted
     /\ ~core.pssh_found
     /\ ~core.file_already_exists)
    => /\ Op("set_key", "none") \notin done_ops
       /\ core_pc # "dash_download"
       /\ Op("download", "-") \notin done_ops
       /\ (core_pc = "returned" => core_out.error)

\* ------------------------------------------------------------------------
\* Part 6: ContentProtectionHandler.extract_pssh_full
\* ------------------------------------------------------------------------

\* int.from_bytes(data[:4], 'little') of a box whose big-endian size is 40
BoxHeader == 671088640

\* The decoded blobs: their length, bytes 4..8, the DRM system whose UUID is
\* at bytes 12..28, and the first four bytes read as a little-endian number
Blobs ==
    {[size |-> 40, box |-> "pssh", system |-> "widevine", header |-> BoxHeader],
     [size |-> 40, box |-> "pssh", system |-> "playready", header |-> BoxHeader],
     [size |-> 40, box |-> "free", system |-> "widevine", header |-> BoxHeader],
     [size |-> 24, box |-> "pssh", system |-> "none", header |-> BoxHeader],
     [size |-> 12, box |-> "none", system |-> "none", header |-> 12],
     [size |-> 12, box |-> "none", system |-> "none", header |-> 14],
     [size |-> 6, box |-> "none", system |-> "none", header |-> 6]}

\* The stripped text of a child element: nothing, text that is not base64,
\* or the base64 of a blob, written on one line or wrapped over two
Texts ==
    {[kind |-> "empty"], [kind |-> "not_base64"]}
        \cup [kind : {"base64"}, blob : Blobs, form : {"one_line", "wrapped"}]

\* base64.b64decode drops the characters outside the alphabet: the line
\* break of a wrapped text does not change the bytes
B64Decode(text) == text.blob

\* _is_valid_pssh
IsValidPssh(text, drm_type) ==
    /\ text.kind = "base64"
    /\ B64Decode(text).size >= 32
    /\ B64Decode(text).box = "pssh"
    /\ B64Decode(text).system = drm_type

\* Any text passes
IsValidProAlways(text) == TRUE

\* _is_valid_pro
IsValidPro(text) ==
    /\ text.kind = "base64"
    /\ B64Decode(text).size >= 10
    /\ B64Decode(text).header = B64Decode(text).size

\* A child of a ContentProtection element: the DRM system of the parent's
\* schemeIdUri, what the child's tag contains, its text
Children ==
    [scheme : {"widevine", "playready"}, tag : {"pssh", "pro"}, text : Texts]

PsshInit ==
    /\ FetchParked
    /\ StatusParked
    /\ CoreParked
    /\ SelParked
    /\ PsshIdleParked
    /\ pssh_type \in {"widevine", "playready"}
    /\ pssh_phase = "sets"
    /\ pssh_scanned = 0
    /\ pssh_list = <<>>
    /\ observed = {}

\* The body of the innermost loop
PsshTaken(child, drm_type) ==
    /\ child.scheme = drm_type
    /\ child.text.kind # "empty"
    /\ IF child.tag = "pssh" THEN IsValidPssh(child.text, drm_type)
       ELSE drm_type = "playready" /\ IsValidPro(child.text)
    /\ child.text \notin observed

PsshChild(child, type) ==
    /\ pssh_scanned < MaxChildren
    /\ pssh_scanned' = pssh_scanned + 1
    /\ IF PsshTaken(child, pssh_type)
       THEN /\ observed' = observed \cup {child.text}
            /\ pssh_list' = Append(pssh_list,
                                   [pssh |-> child.text, type |-> type])
       ELSE UNCHANGED <<observed, pssh_list>>
    /\ UNCHANGED <<pssh_type, pssh_phase>>
    /\ UNCHANGED <<fetchVars, statusVars, coreVars, selVars, psshIdle>>

\* "Check AdaptationSets": a child met under an AdaptationSet or one of its
\* Representations
Pssh_SetChild ==
    /\ pssh_phase = "sets"
    /\ \E child \in Children, type \in {"video", "audio"} :
         PsshChild(child, type)

\* `if not pssh_list`: the fallback loop runs, or the function returns
Pssh_SetsDone ==
    /\ pssh_phase = "sets"
    /\ pssh_phase' = IF pssh_list = <<>> THEN "global" ELSE "returned"
    /\ UNCHANGED <<pssh_type, pssh_scanned, pssh_list, observed>>
    /\ UNCHANGED <<fetchVars, statusVars, coreVars, selVars, psshIdle>>

\* "Fallback for generic PSSHs not in AdaptationSets"
Pssh_GlobalChild ==
    /\ pssh_phase = "global"
    /\ \E child \in Children : PsshChild(child, "global")

Pssh_Return ==
    /\ pssh_phase = "global"
    /\ pssh_phase' = "returned"
    /\ UNCHANGED <<pssh_type, pssh_scanned, pssh_list, observed>>
    /\ UNCHANGED <<fetchVars, statusVars, coreVars, selVars, psshIdle>>

PsshNext ==
    \/ Pssh_SetChild
    \/ Pssh_SetsDone
    \/ Pssh_GlobalChild
    \/ Pssh_Return

PsshSpec == PsshInit /\ [][PsshNext]_vars

\* The entry holds what the claim asks of an entry for the DRM system
EntryAccepted(entry, drm_type) ==
    /\ entry.pssh.kind = "base64"
    /\ \/ /\ B64Decode(entry.pssh).box = "pssh"
          /\ B64Decode(entry.pssh).system = drm_type
       \/ /\ drm_type = "playready"
          /\ B64Decode(entry.pssh).header = B64Decode(entry.pssh).size

\* C26 as stated: every entry of the list decodes to a valid blob of the
\* DRM system, and no decoded payload is in the list twice.
C26_ValidAndNoPayloadTwice ==
    /\ \A i \in 1..Len(pssh_list) : EntryAccepted(pssh_list[i], pssh_type)
    /\ \A i, j \in 1..Len(pssh_list) :
         B64Decode(pssh_list[i].pssh) = B64Decode(pssh_list[j].pssh) => i = j

\* C26: every entry of the list decodes to a valid blob of the DRM system,
\* and no text is in the list twice; two texts that decode to the same
\* bytes are both kept.
C26_ValidAndNoTextTwice ==
    /\ \A i \in 1..Len(pssh_list) : EntryAccepted(pssh_list[i], pssh_type)
    /\ \A i, j \in 1..Len(pssh_list) :
         pssh_list[i].pssh = pssh_list[j].pssh => i = j

\* the function returned two PlayReady entries, a PSSH box and a PRO, after
\* looking at a third child
C26_Witness ==
    /\ pssh_phase = "returned"
    /\ pssh_type = "playready"
    /\ pssh_scanned = 3
    /\ Len(pssh_list) = 2
    /\ \E i \in 1..2 : B64Decode(pssh_list[i].pssh).box = "pssh"
    /\ \E i \in 1..2 : B64Decode(pssh_list[i].pssh).box = "none"

(***************************************************************************)
(* Part 7 (BoxSpec): SegmentDownloader._extract_moof_mdat_from_bytes, the   *)
(* scan over the boxes of a downloaded media segment.  A step reads the    *)
(* eight header bytes found at the offset; what they decode to is drawn    *)
(* when they are read, and since an accepted box is at least eight bytes   *)
(* long no two headers read by one scan overlap, so every draw is the      *)
(* scan of some byte string of the given length.                           *)
(***************************************************************************)

\* What the four size bytes of a header can decode to (big-endian, unsigned)
AtomSizes == {0, 1, 7, 8, 9, 16, MaxBytes + 1}

\* What the four type bytes of a header can decode to
AtomTypes == {"moof", "mdat", "styp", "free"}

Atom(at, size, atom_type) == [offset |-> at, size |-> size, atom_type |-> atom_type]

BoxInit ==
    /\ FetchParked
    /\ StatusParked
    /\ CoreParked
    /\ SelParked
    /\ BoxIdleParked
    /\ data_len \in 0..MaxBytes
    /\ offset = 0
    /\ box_pc = "scan"
    /\ box_read = <<>>
    /\ box_yielded = <<>>

\* The malformed-box test that ends the scan
StopsScan(size) == size < 8 \/ offset + size > data_len

\* The boxes that are handed to the caller
YieldsAtomAny(atom_type) == TRUE

YieldsAtom(atom_type) == atom_type \in {"moof", "mdat"}

\* The loop condition fails, or fewer than eight bytes are left
Box_End ==
    /\ box_pc = "scan"
    /\ (~(offset < data_len) \/ offset + 8 > data_len)
    /\ box_pc' = "done"
    /\ UNCHANGED <<data_len, offset, box_read, box_yielded>>
    /\ UNCHANGED <<fetchVars, statusVars, coreVars, selVars, boxIdle>>

\* One pass of the loop body over a complete header
Box_Atom ==
    /\ box_pc = "scan"
    /\ offset < data_len
    /\ ~(offset + 8 > data_len)
    /\ \E size \in AtomSizes, atom_type \in AtomTypes :
        /\ box_read' = Append(box_read, Atom(offset, size, atom_type))
        /\ IF StopsScan(size)
           THEN /\ box_pc' = "done"
                /\ UNCHANGED <<offset, box_yielded>>
           ELSE /\ box_yielded' =
                       IF YieldsAtom(atom_type)
                       THEN Append(box_yielded, Atom(offset, size, atom_type))
                       ELSE box_yielded
                /\ offset' = offset + size
                /\ UNCHANGED box_pc
    /\ UNCHANGED data_len
    /\ UNCHANGED <<fetchVars, statusVars, coreVars, selVars, boxIdle>>

BoxNext ==
    \/ Box_End
    \/ Box_Atom

BoxSpec == BoxInit /\ [][BoxNext]_vars

\* The generator is drained by the for loop of its caller
BoxFairSpec == BoxSpec /\ WF_vars(BoxNext)

\* A box that lies whole inside the data
WellFormed(b) == b.size >= 8 /\ b.offset + b.size <= data_len

IsMoofOrMdat(b) == b.atom_type = "moof" \/ b.atom_type = "mdat"

\* The headers read are those of the top-level boxes, one after the other
TopLevelChain ==
    \A i \in 1..Len(box_read) :
        box_read[i].offset = IF i = 1 THEN 0
                             ELSE box_read[i - 1].offset + box_read[i - 1].size

WantedAtom(b) == WellFormed(b) /\ IsMoofOrMdat(b)

BoxScanExact ==
    /\ TopLevelChain
    /\ \A i \in 1..(Len(box_read) - 1) : WellFormed(box_read[i])
    /\ box_yielded = SelectSeq(box_read, WantedAtom)
    /\ box_pc = "done" =>
           \/ box_read # <<>> /\ ~WellFormed(box_read[Len(box_read)])
           \/ offset + 8 > data_len

\* C28: the scan of a byte string ends, and it yields, in input order,
\* exactly the top-level moof and mdat boxes that lie before the first box
\* whose size is below 8 or that runs past the end of the data; boxes of
\* other types are skipped without ending the scan.
C28_ScanEndsAndYieldsMoofMdat ==
    /\ [](box_pc # "parked" => BoxScanExact)
    /\ <>(box_pc = "done")

\* An unknown box was skipped, a moof and an mdat were yielded after it, and
\* a malformed box ended the scan
C28_Witness ==
    /\ box_pc = "done"
    /\ Len(box_read) = 3
    /\ box_read[1].atom_type = "styp"
    /\ box_read[3].size < 8
    /\ Len(box_yielded) = 1
    /\ box_yielded[1].atom_type = "moof"
    /\ box_yielded[1].offset = 8

(***************************************************************************)
(* Part 8 (StreamsSpec): MPD_Segments.download_streams and the segment     *)
(* type decision of _get_segment_url_type.  Strings are sequences of       *)
(* characters; a URL is its path, the suffix of the path and its query.    *)
(***************************************************************************)

Mp4 == <<"m", "p", "4">>

M4s == <<"m", "4", "s">>

\* None, as a segment type
NoType == <<>>

NoUrl == [none |-> TRUE]

Url(path, suffix, query) == [none |-> FALSE, path |-> path, suffix |-> suffix, query |-> query]

Urls ==
    {Url("v", Mp4, ""), Url("v", Mp4, "t=1"), Url("V", <<"M", "P", "4">>, ""),
     Url("s1", M4s, ""), Url("s2", M4s, ""), Url("x", <<>>, "")}

\* rep.get("segment_url_type"): absent, or a string
ExplicitTypes == {<<>>, Mp4, <<" ", "M", "P", "4">>, M4s}

\* str.lower() on the characters in use
TypeLowerChar(c) ==
    CASE c = "M" -> "m"
      [] c = "P" -> "p"
      [] c = "S" -> "s"
      [] OTHER -> c

TypeLower(str) == [i \in 1..Len(str) |-> TypeLowerChar(str[i])]

UrlLists == UNION {[1..n -> Urls] : n \in 0..MaxUrls}

Representations ==
    [segment_url_type : ExplicitTypes, segment_urls : UrlLists, init_url : Urls \cup {NoUrl}]

\* _infer_url_ext: the lower-cased suffix of the path, None without a suffix
InferUrlExt(url) == IF url.suffix = <<>> THEN NoType ELSE TypeLower(url.suffix)

\* _has_varying_segment_urls
HasVaryingSegmentUrls(segment_urls) ==
    /\ Len(segment_urls) > 1
    /\ Cardinality({segment_urls[i].path : i \in 1..Len(segment_urls)}) > 1

\* The type of a representation that names none
InferredType(r) ==
    IF /\ Len(r.segment_urls) = 1
       /\ ~r.init_url.none
       /\ r.segment_urls[1] = r.init_url
    THEN Mp4
    ELSE IF HasVaryingSegmentUrls(r.segment_urls) THEN M4s
    ELSE IF r.segment_urls # <<>> THEN InferUrlExt(r.segment_urls[1])
    ELSE NoType

\* _get_segment_url_type
GetSegmentUrlType(r) ==
    LET explicit_type == TypeLower(Strip(r.segment_url_type))
    IN IF explicit_type # <<>> THEN explicit_type ELSE InferredType(r)

StreamsInit ==
    /\ FetchParked
    /\ StatusParked
    /\ CoreParked
    /\ SelParked
    /\ DsIdleParked
    /\ rep \in Representations
    /\ ds_pc = "call"
    /\ ds_path = "none"
    /\ ds_out = [none |-> TRUE]

DsResult(nFailed, stopped) == [none |-> FALSE, nFailed |-> nFailed, stopped |-> stopped]

\* (rep.get("segment_urls") or [None])[0] or rep.get("init_url")
SingleFileUrl(r) == IF r.segment_urls # <<>> THEN r.segment_urls[1] ELSE r.init_url

\* The head of download_streams: the choice of the branch
DS_Dispatch ==
    /\ ds_pc = "call"
    /\ LET seg_type == TypeLower(GetSegmentUrlType(rep))
       IN IF seg_type = Mp4
          THEN /\ ds_path' = "single_file"
               /\ IF SingleFileUrl(rep).none
                  THEN /\ ds_pc' = "returned"
                       /\ ds_out' = DsResult(1, FALSE)
                  ELSE /\ ds_pc' = "mp4"
                       /\ UNCHANGED ds_out
          ELSE /\ ds_path' = "segment"
               /\ ds_pc' = "segments"
               /\ UNCHANGED ds_out
    /\ UNCHANGED rep
    /\ UNCHANGED <<fetchVars, statusVars, coreVars, selVars, dsIdle>>

\* MP4_Downloader returns with or without its kill flag, or is interrupted
DS_Mp4Download ==
    /\ ds_pc = "mp4"
    /\ \E outcome \in {"done", "killed", "interrupt"} :
        ds_out' = CASE outcome = "done" -> DsResult(0, FALSE)
                    [] outcome = "killed" -> DsResult(0, TRUE)
                    [] outcome = "interrupt" -> DsResult(1, TRUE)
    /\ ds_pc' = "returned"
    /\ UNCHANGED <<rep, ds_path>>
    /\ UNCHANGED <<fetchVars, statusVars, coreVars, selVars, dsIdle>>

\* asyncio.run(download_segments(...)) returns its results, or is interrupted
DS_DownloadSegments ==
    /\ ds_pc = "segments"
    /\ \E nFailed \in 0..Len(rep.segment_urls), stopped \in BOOLEAN, interrupt \in BOOLEAN :
        ds_out' = IF interrupt THEN DsResult(0, TRUE) ELSE DsResult(nFailed, stopped)
    /\ ds_pc' = "returned"
    /\ UNCHANGED <<rep, ds_path>>
    /\ UNCHANGED <<fetchVars, statusVars, coreVars, selVars, dsIdle>>

StreamsNext ==
    \/ DS_Dispatch
    \/ DS_Mp4Download
    \/ DS_DownloadSegments

StreamsSpec == StreamsInit /\ [][StreamsNext]_vars

\* C29: a representation whose segment list is empty is handled by the
\* single-file MP4 branch of download_streams and never by the branch that
\* runs download_segments.
C29_EmptyListIsSingleFile ==
    (ds_pc \notin {"parked", "call"} /\ rep.segment_urls = <<>>) =>
        /\ ds_path = "single_file"
        /\ ds_pc # "segments"

(***************************************************************************)
(* Part 9 (EstSpec): the M3U8_Ts_Estimator of a running download, used by  *)
(* the fetcher (add_ts_file, update_progress_bar) and by a thread that     *)
(* reads the progress (calculate_total_size, get_average_segment_size,     *)
(* get_stats, MPD_Segments.get_progress_data).  self.lock is a             *)
(* threading.Lock: an acquire blocks while the lock is held, whoever       *)
(* holds it.  Each thread keeps the frames of its running call; a step     *)
(* moves the innermost frame.                                              *)
(***************************************************************************)

Threads == {"fetcher", "reader"}

\* len(content) of a downloaded segment
SegmentSizes == {0, 1, 3}

\* total_segments: len(segment_urls) + 1
TotalSegments == MaxSamples + 1

FetcherOps == {"add_ts_file", "update_progress_bar"}

ReaderOps ==
    {"calculate_total_size", "get_average_segment_size", "get_stats", "get_progress_data"}

MaxCalls(t) == IF t = "fetcher" THEN MaxSamples ELSE MaxReads

Frame(fn, at, size) == [fn |-> fn, at |-> at, size |-> size]

\* Where a call starts: the functions that open with `with self.lock`
\* start at the acquire
Entry(fn) ==
    IF fn \in {"calculate_total_size", "get_average_segment_size", "get_stats"}
    THEN "acquire"
    ELSE "entry"

NoReturn == [kind |-> "none"]

EstInit ==
    /\ FetchParked
    /\ StatusParked
    /\ CoreParked
    /\ SelParked
    /\ EstIdleParked
    /\ ts_file_sizes = <<>>
    /\ lock = "free"
    /\ est_stack = [t \in Threads |-> <<>>]
    /\ est_calls = [t \in Threads |-> 0]
    /\ est_ret = [t \in Threads |-> NoReturn]

Top(t) == est_stack[t][Len(est_stack[t])]

\* est_stack with the innermost frame of t moved to `at`
Moved(t, at) ==
    [est_stack EXCEPT ![t][Len(est_stack[t])].at = at]

\* est_stack with the innermost frame of t moved to `at` and a call of fn
\* on top of it
Calling(t, at, fn, size) ==
    [est_stack EXCEPT ![t] = Append(Moved(t, at)[t], Frame(fn, Entry(fn), size))]

\* est_stack with the innermost frame of t returned
Returned(t) ==
    [est_stack EXCEPT ![t] = SubSeq(est_stack[t], 1, Len(est_stack[t]) - 1)]

RECURSIVE Sum(_)
Sum(sizes) == IF sizes = <<>> THEN 0 ELSE Head(sizes) + Sum(Tail(sizes))

\* A thread starts one of its operations
Est_Call(t) ==
    /\ lock # "parked"
    /\ est_stack[t] = <<>>
    /\ est_calls[t] < MaxCalls(t)
    /\ \E fn \in (IF t = "fetcher" THEN FetcherOps ELSE ReaderOps), size \in SegmentSizes :
        /\ t = "reader" => size = 0
        /\ est_stack' = [est_stack EXCEPT ![t] = <<Frame(fn, Entry(fn), size)>>]
    /\ est_calls' = [est_calls EXCEPT ![t] = @ + 1]
    /\ UNCHANGED <<ts_file_sizes, lock, est_ret>>
    /\ UNCHANGED <<fetchVars, statusVars, coreVars, selVars, estIdle>>

\* `with self.lock`: the acquire goes through when the lock is free
Est_Acquire(t) ==
    /\ est_stack[t] # <<>>
    /\ Top(t).at = "acquire"
    /\ lock = "free"
    /\ lock' = t
    /\ est_stack' = Moved(t, "held")
    /\ UNCHANGED <<ts_file_sizes, est_calls, est_ret>>
    /\ UNCHANGED <<fetchVars, statusVars, coreVars, selVars, estIdle>>

\* add_ts_file: a size that is not positive is dropped without the lock
Est_AddTsFile(t) ==
    /\ est_stack[t] # <<>>
    /\ Top(t).fn = "add_ts_file"
    /\ \/ /\ Top(t).at = "entry"
          /\ est_stack' = IF Top(t).size <= 0 THEN Returned(t) ELSE Moved(t, "acquire")
          /\ UNCHANGED <<ts_file_sizes, lock>>
       \/ /\ Top(t).at = "held"
          /\ ts_file_sizes' = Append(ts_file_sizes, Top(t).size)
          /\ lock' = "free"
          /\ est_stack' = Returned(t)
    /\ UNCHANGED <<est_calls, est_ret>>
    /\ UNCHANGED <<fetchVars, statusVars, coreVars, selVars, estIdle>>

\* The estimate before it is formatted: mean size times total_segments
EstimatedTotal ==
    IF ts_file_sizes = <<>> THEN 0
    ELSE (Sum(ts_file_sizes) * TotalSegments) \div Len(ts_file_sizes)

\* calculate_total_size, under the lock
Est_CalculateTotalSize(t) ==
    /\ est_stack[t] # <<>>
    /\ Top(t).fn = "calculate_total_size"
    /\ Top(t).at = "held"
    /\ est_ret' = [est_ret EXCEPT ![t] = [kind |-> "size", bytes |-> EstimatedTotal]]
    /\ lock' = "free"
    /\ est_stack' = Returned(t)
    /\ UNCHANGED <<ts_file_sizes, est_calls>>
    /\ UNCHANGED <<fetchVars, statusVars, coreVars, selVars, estIdle>>

\* update_progress_bar: add_ts_file, then calculate_total_size
Est_UpdateProgressBar(t) ==
    /\ est_stack[t] # <<>>
    /\ Top(t).fn = "update_progress_bar"
    /\ \/ /\ Top(t).at = "entry"
          /\ est_stack' = Calling(t, "added", "add_ts_file", Top(t).size)
       \/ /\ Top(t).at = "added"
          /\ est_stack' = Calling(t, "sized", "calculate_total_size", 0)
       \/ /\ Top(t).at = "sized"
          /\ est_stack' = Returned(t)
    /\ UNCHANGED <<ts_file_sizes, lock, est_calls, est_ret>>
    /\ UNCHANGED <<fetchVars, statusVars, coreVars, selVars, estIdle>>

\* get_average_segment_size, under the lock
Est_GetAverageSegmentSize(t) ==
    /\ est_stack[t] # <<>>
    /\ Top(t).fn = "get_average_segment_size"
    /\ Top(t).at = "held"
    /\ est_ret' = [est_ret EXCEPT ![t] =
           [kind |-> "average",
            bytes |-> IF ts_file_sizes = <<>> THEN 0
                      ELSE Sum(ts_file_sizes) \div Len(ts_file_sizes)]]
    /\ lock' = "free"
    /\ est_stack' = Returned(t)
    /\ UNCHANGED <<ts_file_sizes, est_calls>>
    /\ UNCHANGED <<fetchVars, statusVars, coreVars, selVars, estIdle>>

\* get_stats: under the lock it calls get_average_segment_size and
\* calculate_total_size, then leaves the with block
Est_GetStats(t) ==
    /\ est_stack[t] # <<>>
    /\ Top(t).fn = "get_stats"
    /\ Top(t).at \in {"held", "averaged", "sized"}
    /\ IF Top(t).at = "held"
       THEN /\ est_stack' = Calling(t, "averaged", "get_average_segment_size", 0)
            /\ UNCHANGED <<lock, est_ret>>
       ELSE IF Top(t).at = "averaged"
       THEN /\ est_stack' = Calling(t, "sized", "calculate_total_size", 0)
            /\ UNCHANGED <<lock, est_ret>>
       ELSE /\ est_ret' = [est_ret EXCEPT ![t] =
                   [kind |-> "stats", downloaded_count |-> Len(ts_file_sizes)]]
            /\ lock' = "free"
            /\ est_stack' = Returned(t)
    /\ UNCHANGED <<ts_file_sizes, est_calls>>
    /\ UNCHANGED <<fetchVars, statusVars, coreVars, selVars, estIdle>>

\* get_progress_data: get_stats, then the lookups in what it returned; the
\* dict of get_stats has no 'download_speed'
Est_GetProgressData(t) ==
    /\ est_stack[t] # <<>>
    /\ Top(t).fn = "get_progress_data"
    /\ Top(t).at \in {"entry", "stats"}
    /\ IF Top(t).at = "entry"
       THEN /\ est_stack' = Calling(t, "stats", "get_stats", 0)
            /\ UNCHANGED est_ret
       ELSE /\ est_ret' = [est_ret EXCEPT ![t] = [kind |-> "raised", error |-> "KeyError"]]
            /\ est_stack' = Returned(t)
    /\ UNCHANGED <<ts_file_sizes, lock, est_calls>>
    /\ UNCHANGED <<fetchVars, statusVars, coreVars, selVars, estIdle>>

EstNext ==
    \/ \E t \in Threads : Est_Call(t)
    \/ \E t \in Threads : Est_Acquire(t)
    \/ \E t \in Threads : Est_AddTsFile(t)
    \/ \E t \in Threads : Est_CalculateTotalSize(t)
    \/ \E t \in Threads : Est_UpdateProgressBar(t)
    \/ \E t \in Threads : Est_GetAverageSegmentSize(t)
    \/ \E t \in Threads : Est_GetStats(t)
    \/ \E t \in Threads : Est_GetProgressData(t)

EstSpec == EstInit /\ [][EstNext]_vars

\* A thread that stands at an acquire of self.lock
Requests(t) == est_stack[t] # <<>> /\ Top(t).at = "acquire"

\* C30: no thread requests the estimator's lock while it holds it, so no
\* estimator operation and no get_progress_data call is left waiting for a
\* lock that is never released; every operation returns.
C30_LockNeverRequestedByHolder ==
    \A t \in Threads : lock = t => ~Requests(t)

\* The main coroutine is past the sliding-window loop
LoopLeft ==
    \/ pc \in {"closing", "client_close"}
    \/ pc = "done" /\ result.raised # "RuntimeError"

\* C31: a run of the sliding-window loop that is not cancelled ends, for
\* every track length from 0, every worker count from 1, every retry limit
\* from 0 and every answer of the origin; it ends with next_to_write equal
\* to the number of segments and with no task left in the window.
C31_LoopEndsDrained ==
    /\ [](LoopLeft /\ ~download_interrupted =>
              /\ next_to_write = track.total_segments
              /\ DOMAIN active_tasks = {})
    /\ <>(pc = "done" \/ download_interrupted)

\* The loop has ended, not cancelled, on a track of which one segment was
\* written and one was given up
C31_Witness ==
    /\ pc = "done"
    /\ ~download_interrupted
    /\ track.total_segments = 2
    /\ track.max_workers = 2
    /\ next_to_write = 2
    /\ Len(SegmentPart) = 1
    /\ Cardinality(failed_segments) = 1

\* The main coroutine is at `if next_to_write in active_tasks`, or waits
\* for the task it found there
AtWaitStep ==
    \/ pc = "fill" /\ ~CanSpawn /\ DOMAIN active_tasks # {}
    \/ pc \in {"await", "suspended"}

\* C32: when the loop reaches its wait step the window holds exactly the
\* indices next_to_write .. next_to_download - 1, so the task of
\* next_to_write is in it and the branch that sleeps 0.1 s is never taken.
C32_WindowIsContiguous ==
    AtWaitStep =>
        /\ DOMAIN active_tasks = next_to_write .. (next_to_download - 1)
        /\ next_to_write \in DOMAIN active_tasks

\* The loop waits on a window that was filled again after the first
\* segment was taken out of it
C32_Witness ==
    /\ pc = "suspended"
    /\ track.max_workers = 1
    /\ next_to_write = 1
    /\ next_to_download = 2
    /\ DOMAIN active_tasks = {1}

\* The download of segment i has finally failed: its task reports no
\* success after a 404 answer or after max_retry requests
FinallyFailed(i) ==
    /\ i \in DOMAIN active_tasks
    /\ ~active_tasks[i].success
    /\ \/ active_tasks[i].saw404
       \/ active_tasks[i].sent >= track.max_retry

\* C33: an index enters failed_segments, and nFailed counts it, only when
\* its download has finally failed; a cancelled download and a 200 answer
\* with an empty body are not counted as failures.
C33_FailedOnlyWhenFinallyFailed ==
    [][ /\ \A i \in failed_segments' \ failed_segments : FinallyFailed(i)
        /\ info_nFailed' # info_nFailed =>
               /\ info_nFailed' = info_nFailed + 1
               /\ FinallyFailed(next_to_write) ]_vars

\* C34: a run of start_download that is pulled until its event sequence
\* ends, by a return or by an exception, leaves the status completed,
\* failed or cancelled and _is_downloading false; so does the run in which
\* the subprocess reports a 404.
C34_RunEndsTerminal ==
    sd_pc = "ended" => (status \in Terminal /\ ~is_downloading)

(***************************************************************************)
(* Part 10 (WrapSpec): N_m3u8DLWrapper.download as a generator that its    *)
(* caller pulls until it returns or raises.  A step runs the generator     *)
(* from where it stands to its next yield, return or raise; wr_events      *)
(* keeps every event it has yielded.                                       *)
(***************************************************************************)

\* A value of select_audio_lang / select_subtitle_lang: None, a string, or
\* a list of strings
NoLang == [kind |-> "none"]

LangConfigs ==
    {NoLang,
     [kind |-> "str", value |-> "ita"],
     [kind |-> "list", value |-> <<"ita", "eng">>],
     [kind |-> "list", value |-> <<>>]}

\* `c[0] if isinstance(c, list) else c` raises IndexError on an empty list
FirstLangRaises(c) == c.kind = "list" /\ c.value = <<>>

WrapInit ==
    /\ FetchParked
    /\ StatusParked
    /\ CoreParked
    /\ SelParked
    /\ WrIdleParked
    /\ wr_config \in [audio : LangConfigs, subtitle : LangConfigs]
    /\ wr_pc = "created"
    /\ wr_events = <<>>
    /\ wr_process = "none"
    /\ wr_returncode = "none"
    /\ wr_lines = 0

\* The generator suspends at a yield
Wr_Yield(upd, at) ==
    /\ wr_events' = Append(wr_events, upd)
    /\ wr_pc' = at

\* Start of download(): stream info is fetched when none was given and
\* "parsing" is yielded
Wr_Start ==
    /\ wr_pc = "created"
    /\ Wr_Yield(Event("parsing"), "at_parsing")
    /\ UNCHANGED <<wr_config, wr_process, wr_returncode, wr_lines>>
    /\ UNCHANGED <<fetchVars, statusVars, coreVars, selVars, wrIdle>>

\* Ctrl+C while get_available_streams waits for the analysis, before the
\* try block: the generator raises without an event
Wr_StartInterrupted ==
    /\ wr_pc = "created"
    /\ wr_pc' = "raised"
    /\ UNCHANGED <<wr_config, wr_events, wr_process, wr_returncode, wr_lines>>
    /\ UNCHANGED <<fetchVars, statusVars, coreVars, selVars, wrIdle>>

\* The command is built and logged, and "starting" is yielded
Wr_BuildCommand ==
    /\ wr_pc = "at_parsing"
    /\ Wr_Yield(Event("starting"), "at_starting")
    /\ UNCHANGED <<wr_config, wr_process, wr_returncode, wr_lines>>
    /\ UNCHANGED <<fetchVars, statusVars, coreVars, selVars, wrIdle>>

\* subprocess.Popen succeeds
Wr_Popen ==
    /\ wr_pc = "at_starting"
    /\ wr_process' = "running"
    /\ wr_pc' = "reading"
    /\ UNCHANGED <<wr_config, wr_events, wr_returncode, wr_lines>>
    /\ UNCHANGED <<fetchVars, statusVars, coreVars, selVars, wrIdle>>

WrInLoop == wr_pc \in {"reading", "at_line"}

\* The 404 branch goes on reading instead of returning
AfterNotFoundNoReturn == "at_line"

\* Where the generator stands after the event of the 404 branch: at its
\* `return`
AfterNotFound == "at_404"

\* One output line of the subprocess is read and parsed
Wr_Line ==
    /\ WrInLoop
    /\ wr_process = "running"
    /\ wr_lines < MaxLines
    /\ wr_lines' = wr_lines + 1
    /\ \E kind \in LineKinds :
         CASE kind = "other" ->
                 /\ wr_pc' = "reading"
                 /\ UNCHANGED <<wr_events, wr_process>>
           [] kind = "404" ->
                 /\ wr_process' = "terminated"
                 /\ Wr_Yield([status |-> "failed", has_404 |-> TRUE], AfterNotFound)
           [] kind = "list_end" ->
                 /\ Wr_Yield(Event("selected"), "at_list_end")
                 /\ UNCHANGED wr_process
           [] kind = "selected" ->
                 /\ Wr_Yield(Event("selected"), "at_line")
                 /\ UNCHANGED wr_process
           [] kind = "progress" ->
                 /\ Wr_Yield(Event("downloading"), "at_line")
                 /\ UNCHANGED wr_process
    /\ UNCHANGED <<wr_config, wr_returncode>>
    /\ UNCHANGED <<fetchVars, statusVars, coreVars, selVars, wrIdle>>

\* The second "selected" of a line that ends the stream list
Wr_SelectedAgain ==
    /\ wr_pc = "at_list_end"
    /\ Wr_Yield(Event("selected"), "at_line")
    /\ UNCHANGED <<wr_config, wr_process, wr_returncode, wr_lines>>
    /\ UNCHANGED <<fetchVars, statusVars, coreVars, selVars, wrIdle>>

\* End of the output: process.wait(); "failed" for a non-zero exit code;
\* else the arguments of find_downloaded_files are evaluated, and an
\* IndexError there reaches `except Exception`, which yields "failed";
\* else "completed"
Wr_Eof ==
    /\ WrInLoop
    /\ wr_process # "none"
    /\ wr_process' = "exited"
    /\ \E returncode \in (IF wr_process = "running" THEN {0, 1} ELSE {1}) :
         /\ wr_returncode' = returncode
         /\ IF returncode # 0
            THEN Wr_Yield(Event("failed"), "at_failed")
            ELSE IF FirstLangRaises(wr_config.audio) \/ FirstLangRaises(wr_config.subtitle)
            THEN Wr_Yield(Event("failed"), "at_error")
            ELSE Wr_Yield(Event("completed"), "at_completed")
    /\ UNCHANGED <<wr_config, wr_lines>>
    /\ UNCHANGED <<fetchVars, statusVars, coreVars, selVars, wrIdle>>

\* Ctrl+C inside the try block: the subprocess is terminated and
\* "cancelled" yielded
Wr_Interrupt ==
    /\ WrInLoop
    /\ wr_process = "running"
    /\ wr_process' = "terminated"
    /\ Wr_Yield(Event("cancelled"), "at_cancelled")
    /\ UNCHANGED <<wr_config, wr_returncode, wr_lines>>
    /\ UNCHANGED <<fetchVars, statusVars, coreVars, selVars, wrIdle>>

\* Another exception inside the try block (Popen cannot start the binary,
\* the log cannot be written): the subprocess, if any, is terminated and
\* "failed" yielded
Wr_Error ==
    /\ \/ wr_pc = "at_starting"
       \/ WrInLoop /\ wr_process = "running"
    /\ wr_process' = IF wr_process = "running" THEN "terminated" ELSE wr_process
    /\ Wr_Yield(Event("failed"), "at_error")
    /\ UNCHANGED <<wr_config, wr_returncode, wr_lines>>
    /\ UNCHANGED <<fetchVars, statusVars, coreVars, selVars, wrIdle>>

\* `return` after a "failed" event, or the end of the try block after
\* "completed"
Wr_Return ==
    /\ wr_pc \in {"at_404", "at_failed", "at_completed"}
    /\ wr_pc' = "returned"
    /\ UNCHANGED <<wr_config, wr_events, wr_process, wr_returncode, wr_lines>>
    /\ UNCHANGED <<fetchVars, statusVars, coreVars, selVars, wrIdle>>

\* `raise` at the end of the two handlers
Wr_Reraise ==
    /\ wr_pc \in {"at_cancelled", "at_error"}
    /\ wr_pc' = "raised"
    /\ UNCHANGED <<wr_config, wr_events, wr_process, wr_returncode, wr_lines>>
    /\ UNCHANGED <<fetchVars, statusVars, coreVars, selVars, wrIdle>>

WrapNext ==
    \/ Wr_Start
    \/ Wr_StartInterrupted
    \/ Wr_BuildCommand
    \/ Wr_Popen
    \/ Wr_Line
    \/ Wr_SelectedAgain
    \/ Wr_Eof
    \/ Wr_Interrupt
    \/ Wr_Error
    \/ Wr_Return
    \/ Wr_Reraise

WrapSpec == WrapInit /\ [][WrapNext]_vars

\* The places of the terminal events in the sequence
TerminalAt == {i \in 1..Len(wr_events) : wr_events[i].status \in Terminal}

\* C35: download() yields "parsing" first and "starting" second, at most
\* one of completed, failed and cancelled in a run, and nothing after it.
C35_EventOrder ==
    /\ Len(wr_events) >= 1 => wr_events[1].status = "parsing"
    /\ Len(wr_events) >= 2 => wr_events[2].status = "starting"
    /\ Cardinality(TerminalAt) <= 1
    /\ \A i \in TerminalAt : i = Len(wr_events)

\* A run that has returned after parsing, starting, selected, downloading
\* and completed
C35_Witness ==
    /\ wr_pc = "returned"
    /\ Len(wr_events) = 5
    /\ wr_events[3].status = "selected"
    /\ wr_events[4].status = "downloading"
    /\ wr_events[5].status = "completed"

WrEnded == wr_pc \in {"returned", "raised"}

\* C36: when the subprocess has exited with code 0 and no 404 line was
\* seen, the terminal event of the run is "completed", whatever the
\* language configuration is: None, a string, a list, an empty list.
C36_ExitZeroCompletes ==
    (/\ WrEnded
     /\ wr_process = "exited"
     /\ wr_returncode = 0
     /\ \A i \in 1..Len(wr_events) : ~wr_events[i].has_404)
        => /\ wr_events # <<>>
           /\ wr_events[Len(wr_events)].status = "completed"

(***************************************************************************)
(* get_progress_data of the two fetchers, read against the state of the    *)
(* sliding-window download (FetchSpec).  Another thread may call it in     *)
(* any state of the download.                                              *)
(***************************************************************************)

\* get_progress_data: `downloaded`.  DASH takes total minus the failed
\* segments, HLS the size of downloaded_segments
ProgressDownloaded ==
    IF track.fetcher = "DASH"
    THEN track.total_segments - Cardinality(failed_segments)
    ELSE Cardinality(downloaded_segments)

\* round(downloaded / total * 100, 2), in hundredths of a percent
ProgressPercentage ==
    IF track.total_segments > 0
    THEN (2 * 10000 * ProgressDownloaded + track.total_segments)
             \div (2 * track.total_segments)
    ELSE 0

\* The places of the segments in the output file
WrittenSegments == {k \in 1..Len(outfile) : outfile[k].kind # "init"}

SampleSizes == {1, 2}

InitIdx == InitRecord.idx

SampleTracks ==
    [fetcher : Fetchers, has_init : BOOLEAN, total_segments : 0..SampleSegments]

SampleInit ==
    /\ FetchParked
    /\ StatusParked
    /\ CoreParked
    /\ SelParked
    /\ SmIdleParked
    /\ sm_track \in SampleTracks
    /\ sm_pc = "init"
    /\ sm_next = 0
    /\ sm_written = {}
    /\ sm_samples = <<>>
    /\ sm_last_update = "zero"

\* M3U8_Ts_Estimator.add_ts_file: a size that is not positive is dropped
AddTsFile(samples, seg, size, via) ==
    IF size <= 0 THEN samples
    ELSE Append(samples, [seg |-> seg, size |-> size, via |-> via])

\* _throttled_progress_update: when more than the interval has passed since
\* the last update, update_progress_bar is called, and that one calls
\* add_ts_file with the size it was given.  _last_progress_update starts as
\* 0, so the first call always passes the test.
ThrottledProgressUpdate(samples, seg, size, elapsed) ==
    IF elapsed THEN AddTsFile(samples, seg, size, "update_progress_bar")
    ELSE samples

\* The outcomes of `time.time() - _last_progress_update > interval`
Elapsed == IF sm_last_update = "zero" THEN {TRUE} ELSE BOOLEAN

\* _download_and_write_init.  DASH: a 200 answer is written and sampled,
\* and any answer's length goes to the progress update.  HLS: the content
\* is written and goes to the progress update only.
Sm_InitSegment ==
    /\ sm_pc = "init"
    /\ sm_pc' = "loop"
    /\ IF ~sm_track.has_init
       THEN UNCHANGED <<sm_written, sm_samples, sm_last_update>>
       ELSE \E answer \in {"ok", "not_ok", "error"}, size \in SampleSizes \cup {0},
               elapsed \in Elapsed :
              /\ answer = "ok" => size > 0
              /\ IF answer = "error" \/ (sm_track.fetcher = "HLS" /\ answer = "not_ok")
                 THEN UNCHANGED <<sm_written, sm_samples, sm_last_update>>
                 ELSE /\ sm_written' = IF answer = "ok" THEN sm_written \cup {InitIdx}
                                                        ELSE sm_written
                      /\ sm_samples' =
                           ThrottledProgressUpdate(
                               IF sm_track.fetcher = "DASH" /\ answer = "ok"
                               THEN AddTsFile(sm_samples, InitIdx, size, "add_ts_file")
                               ELSE sm_samples,
                               InitIdx, size, elapsed)
                      /\ sm_last_update' = IF elapsed THEN "stamped" ELSE sm_last_update
    /\ UNCHANGED <<sm_track, sm_next>>
    /\ UNCHANGED <<fetchVars, statusVars, coreVars, selVars, smIdle>>

\* The writer loop takes the result of segment next_to_write: written,
\* sampled and reported when `success and content`, else counted as failed
Sm_Segment ==
    /\ sm_pc = "loop"
    /\ sm_next < sm_track.total_segments
    /\ sm_next' = sm_next + 1
    /\ \/ UNCHANGED <<sm_written, sm_samples, sm_last_update>>
       \/ \E size \in SampleSizes, elapsed \in Elapsed :
            /\ sm_written' = sm_written \cup {sm_next}
            /\ sm_samples' =
                 ThrottledProgressUpdate(
                     AddTsFile(sm_samples, sm_next, size, "add_ts_file"),
                     sm_next, size, elapsed)
            /\ sm_last_update' = IF elapsed THEN "stamped" ELSE sm_last_update
    /\ UNCHANGED <<sm_track, sm_pc>>
    /\ UNCHANGED <<fetchVars, statusVars, coreVars, selVars, smIdle>>

\* The loop test fails: every segment has been taken
Sm_End ==
    /\ sm_pc = "loop"
    /\ ~(sm_next < sm_track.total_segments)
    /\ sm_pc' = "done"
    /\ UNCHANGED <<sm_track, sm_next, sm_written, sm_samples, sm_last_update>>
    /\ UNCHANGED <<fetchVars, statusVars, coreVars, selVars, smIdle>>

SampleNext ==
    \/ Sm_InitSegment
    \/ Sm_Segment
    \/ Sm_End

SampleSpec == SampleInit /\ [][SampleNext]_vars

\* The places of the samples that stand for seg
SamplesOf(seg) == {k \in 1..Len(sm_samples) : sm_samples[k].seg = seg}

\* C38: the sample list holds exactly one entry for each segment written
\* to the output and none for a segment not written, at most one for the
\* init segment, and no entry appended by the progress report.
C38_OneSamplePerWrittenSegment ==
    /\ \A i \in 0..(sm_track.total_segments - 1) :
         Cardinality(SamplesOf(i)) = IF i \in sm_written THEN 1 ELSE 0
    /\ Cardinality(SamplesOf(InitIdx)) <= 1
    /\ \A k \in 1..Len(sm_samples) : sm_samples[k].via # "update_progress_bar"

(***************************************************************************)
(* Part 12 (CleanSpec): the last steps of HLS_Downloader.start and         *)
(* DASH_Downloader.start: the merged file is moved to output_path and      *)
(* _cleanup_temp_files removes what the download left behind.  A path is   *)
(* a file name of the output directory together with the way it is         *)
(* written, relative to the working directory or absolute; a file is       *)
(* known by its name.                                                      *)
(***************************************************************************)

\* The files of the output directory: the one output_path names at the
\* start, a downloaded track, and the two intermediate merge files
OutputName == "film"
TrackName == "film.track"
WithAudioName == "film_with_audio"
FinalName == "film_final"

Path(name, form) == [name |-> name, form |-> form]

\* The paths a download status may list
ListedPaths == {Path(n, f) : n \in {OutputName, TrackName}, f \in {"rel", "abs"}}

PathLists == {l \in SUBSET ListedPaths : Cardinality(l) <= MaxListed}

NoPath == [kind |-> "none"]

\* os.path.abspath: a relative path is joined to the working directory
AbsPath(p) == Path(p.name, "abs")

CleanInputs ==
    { c \in [downloader : {"HLS", "DASH"},
             cleanup_tmp : BOOLEAN,
             output_path : {Path(OutputName, f) : f \in {"rel", "abs"}},
             video : ListedPaths \cup {NoPath},
             audios : PathLists,
             subtitles : PathLists,
             external_subtitles : PathLists,
             final_file : {Path(n, "rel") : n \in {OutputName, TrackName, WithAudioName, FinalName}},
             left_over : SUBSET {WithAudioName, FinalName}] :
        \* only the DASH status has external subtitles
        c.downloader = "HLS" => c.external_subtitles = {} }

\* The paths the status lists
Listed(c) ==
    (IF c.video = NoPath THEN {} ELSE {c.video})
        \cup c.audios \cup c.subtitles \cup c.external_subtitles

\* start() has merged: the merged file exists, and so does what the
\* status lists, the log and the analysis directory
CleanInit ==
    /\ FetchParked
    /\ StatusParked
    /\ CoreParked
    /\ SelParked
    /\ ClIdleParked
    /\ cl_in \in CleanInputs
    /\ cl_pc = "move"
    /\ cl_output_path = cl_in.output_path
    /\ cl_files = {p.name : p \in Listed(cl_in)} \cup cl_in.left_over
                      \cup {cl_in.final_file.name, "log", "analysis"}
    /\ cl_removed = {}

\* The two paths are compared as they are written
SamePathAsWritten(a, b) == a = b

\* os.path.abspath(a) == os.path.abspath(b)
SamePath(a, b) == AbsPath(a) = AbsPath(b)

\* "Move to final location if needed": a file at output_path is removed
\* and the merged file renamed; when that raises, output_path becomes the
\* merged file
Cl_Move ==
    /\ cl_pc = "move"
    /\ cl_pc' = "cleanup"
    /\ IF SamePath(cl_in.final_file, cl_output_path)
       THEN UNCHANGED <<cl_output_path, cl_files>>
       ELSE \E raised \in {"none", "remove", "rename"} :
              /\ raised = "remove" => cl_output_path.name \in cl_files
              /\ cl_output_path' = IF raised = "none" THEN cl_output_path
                                   ELSE cl_in.final_file
              /\ cl_files' =
                   CASE raised = "none" ->
                          (cl_files \ {cl_in.final_file.name}) \cup {cl_output_path.name}
                     [] raised = "remove" -> cl_files
                     [] raised = "rename" -> cl_files \ {cl_output_path.name}
    /\ UNCHANGED <<cl_in, cl_removed>>
    /\ UNCHANGED <<fetchVars, statusVars, coreVars, selVars, clIdle>>

\* files_to_remove: the listed paths and the intermediate merge files that
\* exist, each unless it is output_path
FilesToRemove(c, out, existing) ==
    {p \in Listed(c) : ~SamePath(p, out)}
        \cup {p \in {Path(WithAudioName, "rel"), Path(FinalName, "rel")} :
                 p.name \in existing /\ ~SamePath(p, out)}

\* _cleanup_temp_files: with CLEANUP_TMP off HLS returns at once and DASH
\* does not call it; else the files to remove that exist are removed, then
\* the log and the analysis directory
Cl_Cleanup ==
    /\ cl_pc = "cleanup"
    /\ cl_pc' = "done"
    /\ cl_removed' =
         IF cl_in.cleanup_tmp
         THEN ({p.name : p \in FilesToRemove(cl_in, cl_output_path, cl_files)}
                  \cup {"log", "analysis"}) \cap cl_files
         ELSE {}
    /\ cl_files' = cl_files \ cl_removed'
    /\ UNCHANGED <<cl_in, cl_output_path>>
    /\ UNCHANGED <<fetchVars, statusVars, coreVars, selVars, clIdle>>

CleanNext ==
    \/ Cl_Move
    \/ Cl_Cleanup

CleanSpec == CleanInit /\ [][CleanNext]_vars

\* C39: _cleanup_temp_files never removes the file at the final
\* output_path, whatever the status lists and whichever intermediate files
\* exist.
C39_OutputFileKept ==
    cl_pc = "done" => cl_output_path.name \notin cl_removed

\* The cleanup has removed files while the status lists, under another
\* spelling, the very file that is at output_path
C39_Witness ==
    /\ cl_pc = "done"
    /\ cl_removed # {}
    /\ cl_in.video # NoPath
    /\ cl_in.video # cl_output_path
    /\ cl_in.video.name = cl_output_path.name
    /\ cl_output_path.name \in cl_files

====
